---- MODULE Spec2Model ----
(***************************************************************************)
(* Octopus scaffolding CLI (src/octopus) and the router auto-discovery it  *)
(* generates (src/octopus/templates/templates.py).                         *)
(*                                                                         *)
(* The filesystem is the program's only state.  A path is the sequence of  *)
(* its components below the filesystem root <<>>; the project lives in     *)
(* /proj.  `dirs' is the set of directories, `files' maps every regular    *)
(* file to its content.                                                    *)
(*                                                                         *)
(* The chat application of the repository (src/app) keeps its state in a   *)
(* database: `db' holds its tables and `now' is the clock its handlers     *)
(* read.  The scaffolding commands never touch either.                     *)
(***************************************************************************)
EXTENDS Integers, Sequences, FiniteSets, TLC

VARIABLES dirs, files, lastCmd, ops, phase, stack, routers, corrupted,
          db, now

vars == <<dirs, files, lastCmd, ops, phase, stack, routers, corrupted,
          db, now>>

-----------------------------------------------------------------------------
(* Bounds *)

\* number of CLI commands in one run
MaxOps == 4
\* number of path segments in a NAME argument
MaxSegs == 3
\* number of router modules the operator breaks before a boot
MaxCorrupt == 1
\* number of `add feature' commands before a boot (SpecBoot)
MaxBootOps == 3

\* the database before the application has created a row (the scaffolding
\* commands run without one)
NoDb == [api_keys |-> <<>>, next_key_id |-> 1, users |-> {},
         conversations |-> <<>>, next_conversation_id |-> 1,
         messages |-> <<>>]

-----------------------------------------------------------------------------
(* Paths (pathlib.Path) *)

Proj == <<"proj">>
AppRoot == Proj \o <<"app">>

\* Path.name: the last component, "" for the filesystem root
Name(p) == IF Len(p) = 0 THEN "" ELSE p[Len(p)]

\* Path.parent: the root is its own parent
Parent(p) == IF Len(p) = 0 THEN p ELSE SubSeq(p, 1, Len(p) - 1)

\* a path and all the directories above it
Prefixes(p) == { SubSeq(p, 1, i) : i \in 0..Len(p) }

IsPrefix(a, b) == Len(a) <= Len(b) /\ SubSeq(b, 1, Len(a)) = a

\* Path.exists / Path.is_dir on a filesystem value fs = [dirs, files]
Exists(fs, p) == p \in fs.dirs \/ p \in DOMAIN fs.files
IsDir(fs, p) == p \in fs.dirs
HasFile(fs, d, f) == (d \o <<f>>) \in DOMAIN fs.files

\* Path.iterdir restricted to sub-directories
SubDirs(fs, d) == { p \in fs.dirs : Len(p) = Len(d) + 1 /\ Parent(p) = d }

\* Path.mkdir(parents=True, exist_ok=True)
Mkdirs(fs, p) == [fs EXCEPT !.dirs = @ \cup Prefixes(p)]

\* file contents: the template that produced the file, the name the template
\* was instantiated with, and for a feature stub the docstring and the
\* sequence of advisory hint blocks that follow it
Content(tpl, arg) == [tpl |-> tpl, arg |-> arg, doc |-> FALSE, blocks |-> <<>>]

\* a create_file that writes over what is there
create_file_Overwriting(fs, path, content) ==
    LET made == Mkdirs(fs, Parent(path))
    IN  [made EXCEPT !.files = (path :> content) @@ @]

\* utils.create_file: never overwrites
create_file(fs, path, content) ==
    LET made == Mkdirs(fs, Parent(path))
    IN  IF Exists(made, path) THEN made
        ELSE [made EXCEPT !.files = (path :> content) @@ @]

RECURSIVE create_files(_, _, _)
\* create_file for each <<file name, content>> of a sequence, inside dir d
create_files(fs, d, specs) ==
    IF specs = <<>> THEN fs
    ELSE create_files(create_file(fs, d \o <<specs[1][1]>>, specs[1][2]),
                      d, Tail(specs))

-----------------------------------------------------------------------------
(* Names.  Python orders strings by code point; the dotted import paths and *)
(* the directory names of the model are ordered component by component     *)
(* with the rank their spelling gives them.                                 *)

Rank(s) ==
    CASE s = "" -> 0
      [] s = "__init__.py" -> 1
      [] s = "app" -> 2
      [] s = "config" -> 3
      [] s = "docs" -> 4
      [] s = "features" -> 5
      [] s = "proj" -> 6
      [] s = "routing" -> 7
      [] s = "shared" -> 8
      [] s = "tests" -> 9
      [] s = "u" -> 10
      [] OTHER -> 11

RECURSIVE LessSeq(_, _)
\* a < b for two dotted paths
LessSeq(a, b) ==
    IF a = <<>> THEN b # <<>>
    ELSE IF b = <<>> THEN FALSE
    ELSE IF a[1] = b[1] THEN LessSeq(Tail(a), Tail(b))
    ELSE Rank(a[1]) < Rank(b[1])

\* the dotted path a hint's two import lines share:
\* "# from <base>.shared.<name>.service import *"
FullImportPath(m) == m.base \o <<"shared">> \o m.name

RECURSIVE SortByPath(_)
\* sorted(shared_imports.keys()): the entries in ascending full import path
SortByPath(S) ==
    IF S = {} THEN <<>>
    ELSE LET m == CHOOSE x \in S : \A y \in S \ {x} :
                      LessSeq(FullImportPath(x), FullImportPath(y))
         IN  <<m>> \o SortByPath(S \ {m})

-----------------------------------------------------------------------------
(* generators/feature.py *)

RECURSIVE LevelsToCheck(_)
\* the unit levels from the one that holds features/ up to (excluding) app,
\* outermost first
LevelsToCheck(temp_dir) ==
    IF Name(temp_dir) = "app" THEN <<>>
    ELSE IF Name(Parent(temp_dir)) = "features"
         THEN Append(LevelsToCheck(Parent(Parent(temp_dir))), temp_dir)
         ELSE <<temp_dir>>

\* the walks `while x.name != "app": x = x.parent' end only when a directory
\* named app lies on the way up; at the filesystem root they spin forever
WalkEnds(p) == \E q \in Prefixes(p) : Name(q) = "app"

RECURSIVE NearestApp(_)
NearestApp(p) ==
    IF Name(p) = "app" \/ Len(p) = 0 THEN p ELSE NearestApp(Parent(p))

RECURSIVE PartsFromApp(_)
\* the directory names from the nearest directory named app down to temp,
\* with "app" put in front
PartsFromApp(temp) ==
    IF Name(temp) = "app" \/ Len(temp) = 0 THEN <<"app">>
    ELSE Append(PartsFromApp(Parent(temp)), Name(temp))

\* the dict the collector returns, as the set of its (shared_name,
\* base_import_path) values; the key full_import_path is FullImportPath
_collect_available_shared_modules(fs, features_dir) ==
    LET levels_to_check ==
            <<NearestApp(features_dir)>> \o LevelsToCheck(Parent(features_dir))
        ModulesAt(level_dir) ==
            LET shared_dir == level_dir \o <<"shared">>
                abs_path_parts == PartsFromApp(shared_dir)
                base_import_path ==
                    SubSeq(abs_path_parts, 1, Len(abs_path_parts) - 1)
            IN  IF IsDir(fs, shared_dir)
                THEN { [name |-> <<Name(item)>>, base |-> base_import_path] :
                         item \in { i \in SubDirs(fs, shared_dir) :
                                      HasFile(fs, i, "__init__.py") } }
                ELSE {}
    IN  UNION { ModulesAt(levels_to_check[i]) : i \in 1..Len(levels_to_check) }

\* one hint block of a stub: the header's module name, the header's
\* "(from <annot>)" (<<>> when the header has none) and the import lines' base
Block(name, base, annot) == [name |-> name, base |-> base, annot |-> annot]

\* a stub whose every header carries "(from ...)"
FeatureInit_AlwaysFrom(feature_name, shared_imports) ==
    LET sorted == SortByPath(shared_imports)
    IN  [tpl |-> "feature_init", arg |-> <<>>, doc |-> TRUE,
         blocks |-> [i \in 1..Len(sorted) |->
                       Block(sorted[i].name, sorted[i].base, sorted[i].base)]]

\* the __init__.py create_feature_unit writes
FeatureInit(feature_name, shared_imports) ==
    LET sorted == SortByPath(shared_imports)
        Dup(m) == Cardinality({ x \in shared_imports : x.name = m.name }) > 1
    IN  [tpl |-> "feature_init", arg |-> <<>>, doc |-> TRUE,
         blocks |-> [i \in 1..Len(sorted) |->
                       Block(sorted[i].name, sorted[i].base,
                             IF Dup(sorted[i]) THEN sorted[i].base ELSE <<>>)]]

\* the files of a feature unit besides its stub
FeatureFiles(feature_name) ==
    << <<"router.py", Content("feature_router", feature_name)>>,
       <<"service.py", Content("feature_service", feature_name)>>,
       <<"entities.py", Content("feature_entities", feature_name)>>,
       <<"schemas.py", Content("feature_schemas", feature_name)>>,
       <<"README.md", Content("feature_readme", feature_name)>>,
       <<"TODO.md", Content("feature_todo", feature_name)>> >>

\* create_feature_unit(base_path, feature_name): the filesystem it leaves, and
\* whether the collector's walk spins forever (after the mkdir)
create_feature_unit(fs, base_path, feature_name) ==
    LET feature_path == base_path \o feature_name
        made == Mkdirs(fs, feature_path)
    IN  IF ~WalkEnds(base_path) THEN [fs |-> made, hang |-> TRUE]
        ELSE LET shared_imports ==
                     _collect_available_shared_modules(made, base_path)
                 stub == FeatureInit(feature_name, shared_imports)
             IN  [fs |-> create_files(made, feature_path,
                            << <<"__init__.py", stub>> >>
                            \o FeatureFiles(feature_name)),
                  hang |-> FALSE]

-----------------------------------------------------------------------------
(* generators/shared.py *)

\* _add_shared_import_to_feature: the new content of feature_path/__init__.py.
\* `full_import_line in existing_content' is a substring test; a line
\* "# from X.shared.N.service import *" occurs in a stub only as the first
\* import line of a block, so the test is that some block has base X, name N
AddImport(content, shared_name, shared_dir) ==
    LET absolute_path == PartsFromApp(shared_dir)
        new_imports == Block(shared_name, absolute_path,
                             IF absolute_path # <<"app">> THEN absolute_path
                             ELSE <<>>)
    IN  IF \E i \in 1..Len(content.blocks) :
               /\ content.blocks[i].base = absolute_path
               /\ content.blocks[i].name = shared_name
        THEN content
        ELSE IF content.doc
             THEN [content EXCEPT !.blocks = <<new_imports>> \o @]
             ELSE [content EXCEPT !.blocks = Append(@, new_imports)]

RECURSIVE FeaturesToUpdate(_, _)
\* the directories _update_features_recursively visits from features_dir
FeaturesToUpdate(fs, features_dir) ==
    UNION { {feature_item} \cup
            (IF IsDir(fs, feature_item \o <<"features">>)
             THEN FeaturesToUpdate(fs, feature_item \o <<"features">>)
             ELSE {}) :
            feature_item \in { i \in SubDirs(fs, features_dir) :
                                 HasFile(fs, i, "__init__.py") } }

\* a propagation that always starts at the app root
PropagationUnit_Root(shared_path) == AppRoot

\* the unit whose features/ the propagation starts from
PropagationUnit(shared_path) == Parent(Parent(shared_path))

\* _update_features_recursively from the features/ container beside shared/
_update_features_recursively(fs, features_dir, shared_name, shared_dir) ==
    LET touched == { f \o <<"__init__.py">> :
                       f \in FeaturesToUpdate(fs, features_dir) }
    IN  [fs EXCEPT !.files =
            [p \in DOMAIN @ |->
               IF p \in touched THEN AddImport(@[p], shared_name, shared_dir)
               ELSE @[p]]]

\* the __init__.py of a shared unit
SharedInit(shared_name) ==
    IF shared_name = <<"routing">> THEN Content("routing_init", shared_name)
    ELSE IF shared_name = <<"config">> THEN Content("config_init", shared_name)
    ELSE Content("empty", <<>>)

SharedFiles(shared_name) ==
    << <<"service.py", Content("shared_service", shared_name)>>,
       <<"entities.py", Content("shared_entities", shared_name)>>,
       <<"schemas.py", Content("shared_schemas", shared_name)>>,
       <<"README.md", Content("shared_readme", shared_name)>>,
       <<"TODO.md", Content("shared_todo", shared_name)>>,
       <<"__init__.py", SharedInit(shared_name)>> >>

\* create_shared_unit(shared_path, shared_name): the filesystem it leaves and
\* whether the walk from shared/ up to app spins forever (it is made once per
\* feature visited)
create_shared_unit(fs, shared_path, shared_name) ==
    LET made == create_files(fs, shared_path, SharedFiles(shared_name))
        parent_dir == Parent(shared_path)
        features_dir_path == PropagationUnit(shared_path) \o <<"features">>
    IN  IF ~IsDir(made, features_dir_path)
           \/ FeaturesToUpdate(made, features_dir_path) = {}
        THEN [fs |-> made, hang |-> FALSE]
        ELSE IF ~WalkEnds(parent_dir) THEN [fs |-> made, hang |-> TRUE]
        ELSE [fs |-> _update_features_recursively(made, features_dir_path,
                                                  shared_name, parent_dir),
              hang |-> FALSE]

-----------------------------------------------------------------------------
(* generators/unit.py *)

\* create_octopus_unit(base_path, is_root=True)
create_octopus_unit(fs, unit_path) ==
    LET a == create_files(Mkdirs(fs, unit_path), unit_path,
               << <<"__init__.py", Content("root_init", <<>>)>>,
                  <<"router.py", Content("root_router", <<>>)>>,
                  <<"service.py", Content("unit_service", <<>>)>>,
                  <<"entities.py", Content("unit_entities", <<>>)>>,
                  <<"schemas.py", Content("unit_schemas", <<>>)>>,
                  <<"README.md", Content("root_unit_readme", <<>>)>>,
                  <<"TODO.md", Content("root_unit_todo", <<>>)>> >>)
        b == create_file(a, unit_path \o <<"features", "__init__.py">>,
                         Content("empty", <<>>))
    IN  create_file(b, unit_path \o <<"shared", "__init__.py">>,
                    Content("empty", <<>>))

-----------------------------------------------------------------------------
(* utils.find_project_root *)

\* a walk that goes on to the outermost directory with pyproject.toml
MarkerWalk_Outermost(fs, project_root) ==
    LET marked == { q \in Prefixes(project_root) :
                      Len(q) > 0 /\ HasFile(fs, q, "pyproject.toml") }
    IN  IF marked = {} THEN <<>>
        ELSE CHOOSE q \in marked : \A r \in marked : Len(q) <= Len(r)

RECURSIVE MarkerWalk(_, _)
\* the loop: up from start_dir until pyproject.toml or the filesystem root
MarkerWalk(fs, project_root) ==
    IF Parent(project_root) = project_root THEN project_root
    ELSE IF HasFile(fs, project_root, "pyproject.toml") THEN project_root
    ELSE MarkerWalk(fs, Parent(project_root))

\* (project_root, app_root); None is found = FALSE, has_app = FALSE
find_project_root(fs, start_dir) ==
    LET project_root == MarkerWalk(fs, start_dir)
    IN  [found |-> HasFile(fs, project_root, "pyproject.toml"),
         project_root |-> project_root,
         has_app |-> /\ HasFile(fs, project_root, "pyproject.toml")
                     /\ Exists(fs, project_root \o <<"app">>)]

-----------------------------------------------------------------------------
(* commands/add.py *)

\* what a command leaves: the filesystem, the exit code, whether it never
\* returned, the directory of the unit and the container it resolved
Outcome(fs, exit, hang, target, container) ==
    [fs |-> fs, exit |-> exit, hang |-> hang, target |-> target,
     container |-> container]

\* raise typer.Exit(code=1)
Exit1(fs) == Outcome(fs, 1, FALSE, <<>>, <<>>)

\* f"test_{feature_basename}.py"
TestFileName(basename) ==
    CASE basename = "app" -> "test_app.py"
      [] basename = "u" -> "test_u.py"
      [] basename = "config" -> "test_config.py"
      [] OTHER -> "test_.py"

\* Path.relative_to(app_root) succeeds
IsUnder(path, app_root) == IsPrefix(app_root, path)

\* the tests/ and docs/ skeleton of a unit; relative_to raises ValueError,
\* which is caught, when the unit is not under app_root
Mirror(fs, project_root, app_root, path, test_files, docs_files) ==
    IF ~IsUnder(path, app_root) THEN fs
    ELSE LET relative_from_app == SubSeq(path, Len(app_root) + 1, Len(path))
             tests_path == project_root \o <<"tests", "app">> \o relative_from_app
             docs_path == project_root \o <<"docs", "app">> \o relative_from_app
             t == create_files(Mkdirs(fs, tests_path), tests_path, test_files)
         IN  create_files(Mkdirs(t, docs_path), docs_path, docs_files)

\* a nested-name branch that takes parts[0] as it comes
NestedParentValid_Lax(fs, app_root, parts) ==
    Exists(fs, app_root \o <<"features">>)

\* the nested-name branch: NAME has a path separator; the checks on parts[0]
NestedParentValid(fs, app_root, parts) ==
    /\ Exists(fs, app_root \o <<"features">>)
    /\ Exists(fs, app_root \o <<"features", parts[1]>>)
    /\ Exists(fs, app_root \o <<"features", parts[1], "router.py">>)

\* the container of parts[0], made when it is missing
NestedContainer(fs, app_root, parts, kind) ==
    LET dir == app_root \o <<"features", parts[1], kind>>
        made == [fs EXCEPT !.dirs = @ \cup {dir}]
    IN  [ok |-> TRUE, dir |-> dir,
         fs |-> IF Exists(made, dir \o <<"__init__.py">>) THEN made
                ELSE create_file(made, dir \o <<"__init__.py">>,
                                 Content("empty", <<>>))]

\* add_feature's detection of features/ from the working directory
FeatureContext(fs, current_dir, project_root, app_root) ==
    IF Name(current_dir) = "features"
    THEN [ok |-> TRUE, dir |-> current_dir, fs |-> fs]
    ELSE IF Exists(fs, current_dir \o <<"features">>)
    THEN [ok |-> TRUE, dir |-> current_dir \o <<"features">>, fs |-> fs]
    ELSE IF current_dir = project_root /\ Exists(fs, app_root \o <<"features">>)
    THEN [ok |-> TRUE, dir |-> app_root \o <<"features">>, fs |-> fs]
    ELSE IF \/ Exists(fs, current_dir \o <<"router.py">>)
            \/ Exists(fs, current_dir \o <<"service.py">>)
    THEN [ok |-> TRUE, dir |-> current_dir \o <<"features">>,
          fs |-> create_file([fs EXCEPT !.dirs =
                                 @ \cup {current_dir \o <<"features">>}],
                             current_dir \o <<"features", "__init__.py">>,
                             Content("empty", <<>>))]
    ELSE [ok |-> FALSE, dir |-> <<>>, fs |-> fs]

\* add_shared's detection of shared/ from the working directory
SharedContext(fs, current_dir, project_root, app_root) ==
    IF Name(current_dir) = "shared"
    THEN [ok |-> TRUE, dir |-> current_dir, fs |-> fs]
    ELSE IF Exists(fs, current_dir \o <<"shared">>)
    THEN [ok |-> TRUE, dir |-> current_dir \o <<"shared">>, fs |-> fs]
    ELSE IF current_dir = project_root /\ Exists(fs, app_root \o <<"shared">>)
    THEN [ok |-> TRUE, dir |-> app_root \o <<"shared">>, fs |-> fs]
    ELSE IF \/ Exists(fs, current_dir \o <<"router.py">>)
            \/ Exists(fs, current_dir \o <<"service.py">>)
            \/ Exists(fs, current_dir \o <<"features">>)
    THEN [ok |-> TRUE, dir |-> current_dir \o <<"shared">>,
          fs |-> create_file([fs EXCEPT !.dirs =
                                 @ \cup {current_dir \o <<"shared">>}],
                             current_dir \o <<"shared", "__init__.py">>,
                             Content("empty", <<>>))]
    ELSE [ok |-> FALSE, dir |-> <<>>, fs |-> fs]

FeatureTestFiles(name) ==
    << <<"__init__.py", Content("empty", <<>>)>>,
       <<"README.md", Content("feature_tests_readme", name)>>,
       <<"TODO.md", Content("feature_tests_todo", name)>>,
       <<TestFileName(name[Len(name)]), Content("feature_test", name)>> >>

FeatureDocsFiles(name) ==
    << <<"README.md", Content("feature_docs_readme", name)>>,
       <<"TODO.md", Content("feature_docs_todo", name)>> >>

SharedTestFiles(name) ==
    << <<"__init__.py", Content("empty", <<>>)>>,
       <<"README.md", Content("shared_tests_readme", name)>>,
       <<"TODO.md", Content("shared_tests_todo", name)>> >>

SharedDocsFiles(name) ==
    << <<"README.md", Content("shared_docs_readme", name)>>,
       <<"TODO.md", Content("shared_docs_todo", name)>> >>

\* `octopus add feature NAME' run in current_dir; parts is NAME split at the
\* path separators, confirm the operator's answer to "continue anyway?"
add_feature(fs, current_dir, parts, confirm) ==
    LET root == find_project_root(fs, current_dir)
        project_root == root.project_root
        app_root == project_root \o <<"app">>
        nested == Len(parts) > 1
    IN  IF ~root.found \/ ~root.has_app THEN Exit1(fs)
        ELSE IF nested /\ ~NestedParentValid(fs, app_root, parts) THEN Exit1(fs)
        ELSE
        LET ctx == IF nested
                   THEN NestedContainer(fs, app_root, parts, "features")
                   ELSE FeatureContext(fs, current_dir, project_root, app_root)
            name == IF nested THEN Tail(parts) ELSE parts
            features_dir == ctx.dir
            feature_path == features_dir \o name
        IN  IF ~ctx.ok THEN Exit1(fs)
            ELSE IF Exists(ctx.fs, feature_path) /\ ~confirm
            THEN Outcome(ctx.fs, 1, FALSE, <<>>, features_dir)
            ELSE
            LET unit == create_feature_unit(ctx.fs, features_dir, name)
            IN  IF unit.hang
                THEN Outcome(unit.fs, 1, TRUE, feature_path, features_dir)
                ELSE Outcome(Mirror(unit.fs, project_root, app_root,
                                    feature_path, FeatureTestFiles(name),
                                    FeatureDocsFiles(name)),
                             0, FALSE, feature_path, features_dir)

\* `octopus add shared NAME' run in current_dir
add_shared(fs, current_dir, parts, confirm) ==
    LET root == find_project_root(fs, current_dir)
        project_root == root.project_root
        app_root == project_root \o <<"app">>
        nested == Len(parts) > 1
    IN  IF ~root.found \/ ~root.has_app THEN Exit1(fs)
        ELSE IF nested /\ ~NestedParentValid(fs, app_root, parts) THEN Exit1(fs)
        ELSE
        LET ctx == IF nested
                   THEN NestedContainer(fs, app_root, parts, "shared")
                   ELSE SharedContext(fs, current_dir, project_root, app_root)
            name == IF nested THEN Tail(parts) ELSE parts
            shared_dir == ctx.dir
            shared_path == shared_dir \o name
        IN  IF ~ctx.ok THEN Exit1(fs)
            ELSE IF Exists(ctx.fs, shared_path) /\ ~confirm
            THEN Outcome(ctx.fs, 1, FALSE, <<>>, shared_dir)
            ELSE
            LET unit == create_shared_unit(ctx.fs, shared_path, name)
            IN  IF unit.hang
                THEN Outcome(unit.fs, 1, TRUE, shared_path, shared_dir)
                ELSE Outcome(Mirror(unit.fs, project_root, app_root,
                                    shared_path, SharedTestFiles(name),
                                    SharedDocsFiles(name)),
                             0, FALSE, shared_path, shared_dir)

-----------------------------------------------------------------------------
(* commands/remove.py *)

\* shutil.rmtree(p)
rmtree(fs, p) ==
    [dirs |-> { d \in fs.dirs : ~IsPrefix(p, d) },
     files |-> [f \in { x \in DOMAIN fs.files : ~IsPrefix(p, x) } |-> fs.files[f]]]

\* list(Path.iterdir())
Entries(fs, d) ==
    { p \in fs.dirs \cup DOMAIN fs.files : Len(p) = Len(d) + 1 /\ Parent(p) = d }

\* a removal that leaves every container in place
PruneContainer_Never(fs, parent_dir, container_name) == fs

\* the clean-up of the parent container once the unit is gone: it goes too
\* when it is empty or holds __init__.py only
PruneContainer(fs, parent_dir, container_name) ==
    IF Name(parent_dir) # container_name THEN fs
    ELSE LET remaining_items == Entries(fs, parent_dir)
         IN  IF \/ Cardinality(remaining_items) = 0
                \/ /\ Cardinality(remaining_items) = 1
                   /\ \A i \in remaining_items : Name(i) = "__init__.py"
             THEN rmtree(fs, parent_dir)
             ELSE fs

\* the tests/ and docs/ directories of the unit go when they are there
RemoveMirror(fs, project_root, app_root, path) ==
    IF ~IsUnder(path, app_root) THEN fs
    ELSE LET relative_from_app == SubSeq(path, Len(app_root) + 1, Len(path))
             tests_path == project_root \o <<"tests", "app">> \o relative_from_app
             docs_path == project_root \o <<"docs", "app">> \o relative_from_app
             t == IF Exists(fs, tests_path) THEN rmtree(fs, tests_path) ELSE fs
         IN  IF Exists(t, docs_path) THEN rmtree(t, docs_path) ELSE t

\* a removal that also strikes the hints for the unit out of every stub
DeleteUnit_Retracting(fs, project_root, app_root, path, container_name) ==
    LET gone == RemoveMirror(PruneContainer(rmtree(fs, path), Parent(path),
                                            container_name),
                             project_root, app_root, path)
    IN  [gone EXCEPT !.files =
            [f \in DOMAIN @ |->
               [@[f] EXCEPT !.blocks =
                  SelectSeq(@, LAMBDA b : b.name # <<Name(path)>>)]]]

\* the part both commands share once the unit is found and the operator
\* agreed: the unit, then its container, then its tests/ and docs/
DeleteUnit(fs, project_root, app_root, path, container_name) ==
    RemoveMirror(PruneContainer(rmtree(fs, path), Parent(path), container_name),
                 project_root, app_root, path)

RECURSIVE NestedWalk(_, _, _)
\* the loop over parts[:-1]: every segment is a directory with router.py
\* and a features/ sub-directory; the features/ of the last one
NestedWalk(fs, current_path, lead) ==
    IF lead = <<>> THEN [ok |-> TRUE, dir |-> current_path]
    ELSE LET part == current_path \o <<lead[1]>>
         IN  IF \/ ~Exists(fs, part)
                \/ ~Exists(fs, part \o <<"router.py">>)
                \/ ~Exists(fs, part \o <<"features">>)
             THEN [ok |-> FALSE, dir |-> <<>>]
             ELSE NestedWalk(fs, part \o <<"features">>, Tail(lead))

\* remove_feature's detection of the feature from the working directory
RemoveFeatureContext(fs, current_dir, project_root, app_root) ==
    IF Name(current_dir) = "features"
    THEN [ok |-> TRUE, dir |-> current_dir]
    ELSE IF Exists(fs, current_dir \o <<"features">>)
    THEN [ok |-> TRUE, dir |-> current_dir \o <<"features">>]
    ELSE IF current_dir = project_root /\ Exists(fs, app_root \o <<"features">>)
    THEN [ok |-> TRUE, dir |-> app_root \o <<"features">>]
    ELSE IF /\ Exists(fs, current_dir \o <<"router.py">>)
            /\ Exists(fs, current_dir \o <<"features">>)
    THEN [ok |-> TRUE, dir |-> current_dir \o <<"features">>]
    ELSE [ok |-> FALSE, dir |-> <<>>]

\* remove_shared's detection of the shared module from the working directory
RemoveSharedContext(fs, current_dir, project_root, app_root) ==
    IF Name(current_dir) = "shared"
    THEN [ok |-> TRUE, dir |-> current_dir]
    ELSE IF Exists(fs, current_dir \o <<"shared">>)
    THEN [ok |-> TRUE, dir |-> current_dir \o <<"shared">>]
    ELSE IF current_dir = project_root /\ Exists(fs, app_root \o <<"shared">>)
    THEN [ok |-> TRUE, dir |-> app_root \o <<"shared">>]
    ELSE IF /\ \/ Exists(fs, current_dir \o <<"router.py">>)
               \/ Exists(fs, current_dir \o <<"features">>)
            /\ Exists(fs, current_dir \o <<"shared">>)
    THEN [ok |-> TRUE, dir |-> current_dir \o <<"shared">>]
    ELSE [ok |-> FALSE, dir |-> <<>>]

\* `octopus remove feature NAME [--force]' run in current_dir; confirm is the
\* operator's answer to "are you sure?".  The outcome's target is the
\* directory the command resolved, once it found a feature there
remove_feature(fs, current_dir, parts, force, confirm) ==
    LET root == find_project_root(fs, current_dir)
        project_root == root.project_root
        app_root == project_root \o <<"app">>
        nested == Len(parts) > 1
    IN  IF ~root.found \/ ~root.has_app THEN Exit1(fs)
        ELSE IF nested /\ ~Exists(fs, app_root \o <<"features">>) THEN Exit1(fs)
        ELSE
        LET ctx == IF nested
                   THEN NestedWalk(fs, app_root \o <<"features">>,
                                   SubSeq(parts, 1, Len(parts) - 1))
                   ELSE RemoveFeatureContext(fs, current_dir, project_root,
                                             app_root)
            feature_path == ctx.dir \o <<parts[Len(parts)]>>
        IN  IF ~ctx.ok THEN Exit1(fs)
            ELSE IF ~Exists(fs, feature_path) THEN Exit1(fs)
            ELSE IF ~Exists(fs, feature_path \o <<"router.py">>) THEN Exit1(fs)
            ELSE IF ~force /\ ~confirm
            THEN Outcome(fs, 0, FALSE, feature_path, ctx.dir)
            ELSE Outcome(DeleteUnit(fs, project_root, app_root, feature_path,
                                    "features"),
                         0, FALSE, feature_path, ctx.dir)

\* `octopus remove shared NAME [--force]' run in current_dir
remove_shared(fs, current_dir, parts, force, confirm) ==
    LET root == find_project_root(fs, current_dir)
        project_root == root.project_root
        app_root == project_root \o <<"app">>
        nested == Len(parts) > 1
    IN  IF ~root.found \/ ~root.has_app THEN Exit1(fs)
        ELSE IF nested /\ ~Exists(fs, app_root \o <<"features">>) THEN Exit1(fs)
        ELSE
        LET walk == NestedWalk(fs, app_root \o <<"features">>,
                               SubSeq(parts, 1, Len(parts) - 1))
            ctx == IF nested
                   THEN [ok |-> walk.ok,
                         dir |-> Parent(walk.dir) \o <<"shared">>]
                   ELSE RemoveSharedContext(fs, current_dir, project_root,
                                            app_root)
            shared_path == ctx.dir \o <<parts[Len(parts)]>>
        IN  IF ~ctx.ok THEN Exit1(fs)
            ELSE IF ~Exists(fs, shared_path) THEN Exit1(fs)
            ELSE IF ~Exists(fs, shared_path \o <<"service.py">>) THEN Exit1(fs)
            ELSE IF ~force /\ ~confirm
            THEN Outcome(fs, 0, FALSE, shared_path, ctx.dir)
            ELSE Outcome(DeleteUnit(fs, project_root, app_root, shared_path,
                                    "shared"),
                         0, FALSE, shared_path, ctx.dir)

-----------------------------------------------------------------------------
(* commands/init.py: the project `octopus init' leaves in /proj *)

InitFs ==
    LET empty == Content("empty", <<>>)
        uv == [dirs |-> Prefixes(Proj),
               files |-> (Proj \o <<"pyproject.toml">>)
                            :> Content("pyproject", <<>>)]
        unit == create_octopus_unit(uv, AppRoot)
        main == create_file(unit, AppRoot \o <<"main.py">>,
                            Content("main", <<>>))
        config == create_shared_unit(main, AppRoot \o <<"shared", "config">>,
                                     <<"config">>).fs
        routing == create_shared_unit(config,
                                      AppRoot \o <<"shared", "routing">>,
                                      <<"routing">>).fs
        env == create_files(routing, Proj,
                 << <<".env.example", Content("env_example", <<>>)>>,
                    <<".env", Content("env_example", <<>>)>>,
                    <<".gitignore", Content("gitignore", <<>>)>> >>)
        tests_path == Proj \o <<"tests">>
        tests_app_path == tests_path \o <<"app">>
        t1 == create_files(Mkdirs(env, tests_app_path), tests_path,
                 << <<"__init__.py", empty>> >>)
        t2 == create_files(t1, tests_app_path,
                 << <<"__init__.py", empty>>,
                    <<"README.md", Content("tests_readme", <<>>)>>,
                    <<"TODO.md", Content("tests_todo", <<>>)>> >>)
        t3 == create_files(t2, tests_path,
                 << <<"conftest.py", Content("test_conftest", <<>>)>> >>)
        t4 == create_files(t3, tests_app_path,
                 << <<"test_health.py", Content("test_health", <<>>)>> >>)
        t5 == create_file(t4, tests_app_path \o <<"features", "__init__.py">>,
                          empty)
        t6 == create_file(t5, tests_app_path \o <<"shared", "__init__.py">>,
                          empty)
        docs_path == Proj \o <<"docs">>
        docs_app_path == docs_path \o <<"app">>
        d1 == create_files(Mkdirs(t6, docs_app_path), docs_app_path,
                 << <<"README.md", Content("docs_readme", <<>>)>>,
                    <<"TODO.md", Content("docs_todo", <<>>)>> >>)
        d2 == Mkdirs(Mkdirs(d1, docs_app_path \o <<"features">>),
                     docs_app_path \o <<"shared">>)
        d3 == create_files(d2, docs_path,
                 << <<"ARCHITECTURE.md", Content("architecture_doc", <<>>)>>,
                    <<"BEST_PRACTICES.md", Content("best_practices_doc", <<>>)>>,
                    <<"EXAMPLES.md", Content("examples_doc", <<>>)>> >>)
    IN  create_files(d3, Proj,
            << <<"README.md", Content("root_readme", <<>>)>>,
               <<"TODO.md", Content("root_todo", <<>>)>> >>)

-----------------------------------------------------------------------------
(* Inputs *)

\* directory names the operator types
FeatureNames == {"app", "u"}
SharedNames == {"config", "u"}

\* NAME arguments: up to MaxSegs segments, the leading ones the feature u
LeadNames == {"u"}

RECURSIVE Lead(_)
Lead(n) == IF n = 0 THEN {<<>>}
           ELSE { <<f>> \o l : f \in LeadNames, l \in Lead(n - 1) }

NameInputs(leaves) ==
    UNION { { l \o <<x>> : l \in Lead(n), x \in leaves } : n \in 0..(MaxSegs - 1) }

\* working directories the operator runs the commands from
Cwds == { <<>>, Proj, AppRoot \o <<"features", "u">>,
          AppRoot \o <<"features", "app">> }

\* the last command run: which one, the operator's answer (or --force),
\* the exit code, whether it never returned, the unit directory and the
\* container it resolved, whether the unit directory was there before; the
\* working directory and the NAME when the command resolved a unit and
\* exited with 0; and `redo': the directory the command before it wrote or
\* deleted when this command repeats that one's NAME and working directory
\* (a remove right after the add, an add right after such a remove)
NoCmd == [kind |-> "init", cwd |-> <<>>, parts |-> <<>>, confirm |-> TRUE,
          exit |-> 0, hang |-> FALSE, target |-> <<>>, container |-> <<>>,
          existed |-> FALSE, redo |-> <<>>]

Cmd(kind, cwd, parts, confirm, r, existed, redo) ==
    LET done == r.exit = 0 /\ r.target # <<>>
    IN  [kind |-> kind,
         cwd |-> IF done THEN cwd ELSE <<>>,
         parts |-> IF done THEN parts ELSE <<>>,
         confirm |-> confirm, exit |-> r.exit, hang |-> r.hang,
         target |-> r.target, container |-> r.container,
         existed |-> existed, redo |-> redo]

\* the target of the last command when it was `kind' with this NAME from
\* this working directory, it went through, and (for a remove) it came right
\* after the add it undid
Redo(kind, cwd, parts) ==
    IF /\ lastCmd.kind = kind
       /\ lastCmd.exit = 0
       /\ lastCmd.confirm
       /\ lastCmd.target # <<>>
       /\ lastCmd.cwd = cwd
       /\ lastCmd.parts = parts
       /\ (kind \in {"remove_feature", "remove_shared"} => lastCmd.redo # <<>>)
       /\ (kind \in {"feature", "shared"} => ~lastCmd.existed)
    THEN lastCmd.target
    ELSE <<>>

FS == [dirs |-> dirs, files |-> files]

\* the operator is asked "continue anyway?" only when the unit's directory
\* is there already; `yes' is the command's outcome when the answer is yes
Prompted(yes) == yes.target # <<>> /\ yes.target \in dirs

Answers(yes) == IF Prompted(yes) THEN BOOLEAN ELSE {TRUE}

-----------------------------------------------------------------------------
(* The state machine *)

Init ==
    /\ dirs = InitFs.dirs
    /\ files = InitFs.files
    /\ lastCmd = NoCmd
    /\ ops = 0
    /\ phase = "cli"
    /\ stack = <<>>
    /\ routers = <<>>
    /\ corrupted = 0
    /\ db = NoDb
    /\ now = 0

AddFeature ==
    /\ phase = "cli"
    /\ ops < MaxOps
    /\ \E cwd \in Cwds \cap dirs, parts \in NameInputs(FeatureNames) :
       \E yes \in {add_feature(FS, cwd, parts, TRUE)} :
       \E confirm \in Answers(yes) :
       \E r \in {IF confirm THEN yes ELSE add_feature(FS, cwd, parts, FALSE)} :
         /\ dirs' = r.fs.dirs
         /\ files' = r.fs.files
         /\ lastCmd' = Cmd("feature", cwd, parts, confirm, r, Prompted(yes),
                          Redo("remove_feature", cwd, parts))
    /\ ops' = ops + 1
    /\ UNCHANGED <<phase, stack, routers, corrupted>>
    /\ UNCHANGED <<db, now>>

AddShared ==
    /\ phase = "cli"
    /\ ops < MaxOps
    /\ \E cwd \in Cwds \cap dirs, parts \in NameInputs(SharedNames) :
       \E yes \in {add_shared(FS, cwd, parts, TRUE)} :
       \E confirm \in Answers(yes) :
       \E r \in {IF confirm THEN yes ELSE add_shared(FS, cwd, parts, FALSE)} :
         /\ dirs' = r.fs.dirs
         /\ files' = r.fs.files
         /\ lastCmd' = Cmd("shared", cwd, parts, confirm, r, Prompted(yes),
                          Redo("remove_shared", cwd, parts))
    /\ ops' = ops + 1
    /\ UNCHANGED <<phase, stack, routers, corrupted>>
    /\ UNCHANGED <<db, now>>

\* the operator passes --force or answers the prompt, which comes only
\* when the unit was found; `yes' is the outcome when the removal goes on
RemoveAnswers(yes) == IF yes.target # <<>> THEN BOOLEAN ELSE {TRUE}

RemoveFeature ==
    /\ phase = "cli"
    /\ ops < MaxOps
    /\ \E cwd \in Cwds \cap dirs, parts \in NameInputs(FeatureNames) :
       \E yes \in {remove_feature(FS, cwd, parts, TRUE, TRUE)} :
       \E go \in RemoveAnswers(yes) :
       \E r \in {IF go THEN yes
                 ELSE remove_feature(FS, cwd, parts, FALSE, FALSE)} :
         /\ dirs' = r.fs.dirs
         /\ files' = r.fs.files
         /\ lastCmd' = Cmd("remove_feature", cwd, parts, go, r,
                          yes.target # <<>>, Redo("feature", cwd, parts))
    /\ ops' = ops + 1
    /\ UNCHANGED <<phase, stack, routers, corrupted>>
    /\ UNCHANGED <<db, now>>

RemoveShared ==
    /\ phase = "cli"
    /\ ops < MaxOps
    /\ \E cwd \in Cwds \cap dirs, parts \in NameInputs(SharedNames) :
       \E yes \in {remove_shared(FS, cwd, parts, TRUE, TRUE)} :
       \E go \in RemoveAnswers(yes) :
       \E r \in {IF go THEN yes
                 ELSE remove_shared(FS, cwd, parts, FALSE, FALSE)} :
         /\ dirs' = r.fs.dirs
         /\ files' = r.fs.files
         /\ lastCmd' = Cmd("remove_shared", cwd, parts, go, r,
                          yes.target # <<>>, Redo("shared", cwd, parts))
    /\ ops' = ops + 1
    /\ UNCHANGED <<phase, stack, routers, corrupted>>
    /\ UNCHANGED <<db, now>>

Next == AddFeature \/ AddShared \/ RemoveFeature \/ RemoveShared

Spec == Init /\ [][Next]_vars

-----------------------------------------------------------------------------
(* Application boot: templates/templates.py, the generated app/main.py,    *)
(* app/router.py, <feature>/router.py and app/shared/routing/service.py.   *)
(* A route is named by the directory of the feature whose router.py        *)
(* declares it (the template declares one, GET /status).                   *)

RECURSIVE SortByName_Descending(_)
\* a listing that comes in descending order
SortByName_Descending(S) ==
    IF S = {} THEN <<>>
    ELSE LET m == CHOOSE x \in S : \A y \in S \ {x} : Rank(Name(x)) > Rank(Name(y))
         IN  <<m>> \o SortByName_Descending(S \ {m})

RECURSIVE SortByName(_)
\* os.listdir sorted, as pkgutil.iter_modules yields it
SortByName(S) ==
    IF S = {} THEN <<>>
    ELSE LET m == CHOOSE x \in S : \A y \in S \ {x} : Rank(Name(x)) < Rank(Name(y))
         IN  <<m>> \o SortByName(S \ {m})

\* the packages the loop of auto_discover_routers visits, in its order:
\* nothing when features/ is missing, and only directories with __init__.py
ChildPackages(fs, current_dir) ==
    LET features_path == current_dir \o <<"features">>
    IN  IF ~Exists(fs, features_path) THEN <<>>
        ELSE SortByName({ i \in SubDirs(fs, features_path) :
                            HasFile(fs, i, "__init__.py") })

\* `from app.shared.routing import auto_discover_routers' succeeds
RoutingImportable(fs) ==
    /\ HasFile(fs, AppRoot \o <<"shared", "routing">>, "__init__.py")
    /\ HasFile(fs, AppRoot \o <<"shared", "routing">>, "service.py")

\* what the operator may have left in a feature's router.py instead of the
\* generated text, and "deleted" for a router.py that was removed
Breakages == {"syntax_error", "attribute_error", "runtime_error",
              "no_router", "system_exit", "deleted"}

\* importlib.import_module(".features.<child>.router"): "ok" when the module
\* runs to its end and defines router, "no_router" when it runs to its end
\* without defining it, else the class of the exception it raises
ImportResult(fs, child) ==
    IF ~HasFile(fs, child, "router.py") THEN "ModuleNotFoundError"
    ELSE LET tpl == fs.files[child \o <<"router.py">>].tpl
         IN  CASE tpl = "feature_router" ->
                    IF RoutingImportable(fs) /\ HasFile(fs, child, "service.py")
                    THEN "ok" ELSE "ModuleNotFoundError"
               [] tpl = "syntax_error" -> "SyntaxError"
               [] tpl = "attribute_error" -> "AttributeError"
               [] tpl = "runtime_error" -> "RuntimeError"
               [] tpl = "system_exit" -> "SystemExit"
               [] OTHER -> "no_router"

\* the classes derived from Exception (SystemExit derives from BaseException)
ExceptionClasses ==
    {"ModuleNotFoundError", "AttributeError", "SyntaxError", "RuntimeError"}

\* a loop that catches the two named classes only
Caught_NamedOnly(exc) ==
    \/ exc = "ModuleNotFoundError"
    \/ exc = "AttributeError"

\* the except clauses of auto_discover_routers
Caught(exc) ==
    \/ exc = "ModuleNotFoundError"
    \/ exc = "AttributeError"
    \/ exc \in ExceptionClasses

\* a feature router whose body does not call auto_discover_routers
FeatureRouterDiscovers_None(fs, feature) == <<>>

\* the body of a generated feature router: the router with its /status
\* route, then auto_discover_routers(router, __file__, __package__) as the
\* last statement: the packages that call will visit
FeatureRouterDiscovers(fs, feature) == ChildPackages(fs, feature)

\* APIRouter.include_router: the child's routes as they are at the call
include_router(parent_routes, child_routes) == parent_routes \o child_routes

Frame(unit, todo) == [unit |-> unit, todo |-> todo]

Top == stack[Len(stack)]

\* the operator edits or deletes a feature's router.py before the boot
Corrupt ==
    /\ phase = "cli"
    /\ corrupted < MaxCorrupt
    /\ \E f \in dirs, kind \in Breakages :
         /\ HasFile(FS, f, "router.py")
         /\ files[f \o <<"router.py">>].tpl = "feature_router"
         /\ files' = IF kind = "deleted"
                     THEN [p \in DOMAIN files \ {f \o <<"router.py">>} |-> files[p]]
                     ELSE [files EXCEPT ![f \o <<"router.py">>].tpl = kind]
    /\ corrupted' = corrupted + 1
    /\ UNCHANGED <<dirs, lastCmd, ops, phase, stack, routers>>
    /\ UNCHANGED <<db, now>>

\* main.py imports app.router, whose body creates the root router and calls
\* auto_discover_routers on it
BootStart ==
    /\ phase = "cli"
    /\ IF RoutingImportable(FS)
       THEN /\ phase' = "boot"
            /\ routers' = (AppRoot :> <<>>)
            /\ stack' = <<Frame(AppRoot, ChildPackages(FS, AppRoot))>>
       ELSE /\ phase' = "crashed"
            /\ UNCHANGED <<routers, stack>>
    /\ UNCHANGED <<dirs, files, lastCmd, ops, corrupted>>
    /\ UNCHANGED <<db, now>>

\* one turn of the loop whose import succeeds: the child's module body runs,
\* which starts the child's own discovery
ImportChild ==
    /\ phase = "boot"
    /\ Top.todo # <<>>
    /\ LET child == Head(Top.todo)
       IN  /\ ImportResult(FS, child) = "ok"
           /\ routers' = (child :> <<child>>) @@ routers
           /\ stack' = Append(stack,
                              Frame(child, FeatureRouterDiscovers(FS, child)))
    /\ UNCHANGED <<dirs, files, lastCmd, ops, phase, corrupted>>
    /\ UNCHANGED <<db, now>>

\* one turn of the loop whose import fails or finds no router attribute
ImportFail ==
    /\ phase = "boot"
    /\ Top.todo # <<>>
    /\ LET result == ImportResult(FS, Head(Top.todo))
       IN  /\ result # "ok"
           /\ IF result = "no_router" \/ Caught(result)
              THEN /\ stack' = [stack EXCEPT ![Len(stack)].todo = Tail(@)]
                   /\ phase' = phase
              ELSE /\ stack' = <<>>
                   /\ phase' = "crashed"
    /\ UNCHANGED <<dirs, files, lastCmd, ops, routers, corrupted>>
    /\ UNCHANGED <<db, now>>

\* a feature's discovery is over: its import returns and the parent mounts
\* the feature's router
Mount ==
    /\ phase = "boot"
    /\ Len(stack) > 1
    /\ Top.todo = <<>>
    /\ LET child == Top.unit
           parent == stack[Len(stack) - 1].unit
       IN  /\ routers' = [routers EXCEPT ![parent] =
                             include_router(@, routers[child])]
           /\ stack' = [SubSeq(stack, 1, Len(stack) - 1)
                          EXCEPT ![Len(stack) - 1].todo = Tail(@)]
    /\ UNCHANGED <<dirs, files, lastCmd, ops, phase, corrupted>>
    /\ UNCHANGED <<db, now>>

\* the root's discovery is over: main.py includes the root router
BootDone ==
    /\ phase = "boot"
    /\ Len(stack) = 1
    /\ Top.todo = <<>>
    /\ phase' = "done"
    /\ stack' = <<>>
    /\ UNCHANGED <<dirs, files, lastCmd, ops, routers, corrupted>>
    /\ UNCHANGED <<db, now>>

\* working directories and names of the scaffolding that precedes a boot
BootCwds == { Proj, AppRoot \o <<"features", "u", "features", "u">> }

Scaffold ==
    /\ phase = "cli"
    /\ corrupted = 0
    /\ ops < MaxBootOps
    /\ \E cwd \in BootCwds \cap dirs, parts \in NameInputs(FeatureNames) :
       \E r \in {add_feature(FS, cwd, parts, TRUE)} :
         /\ dirs' = r.fs.dirs
         /\ files' = r.fs.files
         /\ lastCmd' = Cmd("feature", cwd, parts, TRUE, r, Prompted(r), <<>>)
    /\ ops' = ops + 1
    /\ UNCHANGED <<phase, stack, routers, corrupted>>
    /\ UNCHANGED <<db, now>>

NextBoot ==
    \/ Scaffold
    \/ Corrupt
    \/ BootStart
    \/ ImportChild
    \/ ImportFail
    \/ Mount
    \/ BootDone

SpecBoot == Init /\ [][NextBoot]_vars

-----------------------------------------------------------------------------
(* What the claims speak about, read off the directory tree alone *)

\* ImportPath of a directory under the app root: its directory names from
\* app down, dotted
ImportPathOf(path) == SubSeq(path, Len(Proj) + 1, Len(path))

\* a feature unit: a directory with the router entry point
IsFeature(fs, d) == HasFile(fs, d, "router.py")

\* a shared unit: the service entry point and no router entry point
IsSharedUnit(fs, d) == HasFile(fs, d, "service.py") /\ ~HasFile(fs, d, "router.py")

\* the app root, or a feature that hangs off it through features/ containers
\* of features only
RECURSIVE IsUnit(_, _)
IsUnit(fs, d) ==
    \/ d = AppRoot
    \/ /\ Len(d) >= Len(AppRoot) + 2
       /\ Name(Parent(d)) = "features"
       /\ IsFeature(fs, d)
       /\ IsUnit(fs, Parent(Parent(d)))

\* the unit levels from the app root down to unit U, U included
Levels(U) ==
    { q \in Prefixes(U) : IsPrefix(AppRoot, q) /\ (Len(q) - Len(AppRoot)) % 2 = 0 }

\* the shared units in the shared/ container of the levels of U
VisibleShared(fs, U) ==
    { s \in fs.dirs : /\ Name(Parent(s)) = "shared"
                      /\ Parent(Parent(s)) \in Levels(U)
                      /\ IsSharedUnit(fs, s) }

\* the features nested at any depth below unit U
FeaturesBelow(fs, U) ==
    { d \in fs.dirs : IsPrefix(U, d) /\ d # U /\ IsUnit(fs, d) /\ IsUnit(fs, U) }

\* the hint blocks of the stub of feature d
StubBlocks(fs, d) ==
    LET c == fs.files[d \o <<"__init__.py">>]
    IN  { c.blocks[i] : i \in 1..Len(c.blocks) }

\* the last command created or re-generated a unit directly inside the
\* container it resolved (NAME had no segment left after the parent feature)
Direct == /\ lastCmd.exit = 0
          /\ ~lastCmd.hang
          /\ Len(lastCmd.target) = Len(lastCmd.container) + 1

AddedShared == lastCmd.kind = "shared" /\ Direct /\ Name(lastCmd.container) = "shared"

AddedFeature == lastCmd.kind = "feature" /\ Direct /\ Name(lastCmd.container) = "features"

\* the unit that owns the container the last command resolved
OwnerUnit == Parent(lastCmd.container)

\* block b is a hint for the shared module named S of unit U, whichever of the
\* two spellings of the defining path it prints
HintFor(b, U, S) ==
    /\ b.name = <<S>>
    /\ b.base \in {ImportPathOf(U), ImportPathOf(U) \o <<"shared">>}

-----------------------------------------------------------------------------
(* Claims on the boot (SpecBoot) *)

Routes(u) == { routers[u][i] : i \in 1..Len(routers[u]) }

\* the discovery of unit u has returned
Returned(u) ==
    /\ phase \in {"boot", "done"}
    /\ u \in DOMAIN routers
    /\ \A i \in 1..Len(stack) : stack[i].unit # u

\* the child packages of unit p, as a set
Children(fs, p) ==
    { c \in SubDirs(fs, p \o <<"features">>) : HasFile(fs, c, "__init__.py") }

\* some router module raises something that is not an Exception
RaisesBaseException == \E d \in dirs : ImportResult(FS, d) = "SystemExit"

\* C1: when the import of a child's router module raises an Exception,
\* auto_discover_routers still returns normally (the boot does not crash) and,
\* once the discovery of a unit has returned, every child whose router module
\* imports correctly and exposes `router' is mounted on the unit's router
C1_FaultIsolation ==
    /\ (phase = "crashed" => RaisesBaseException)
    /\ \A p \in DOMAIN routers :
         Returned(p) =>
           \A c \in Children(FS, p) :
             ImportResult(FS, c) = "ok" => c \in Routes(p)

\* a unit with a child whose import raised SyntaxError and a sibling that
\* was mounted, after the boot
C1_Witness ==
    /\ phase = "done"
    /\ \E p \in DOMAIN routers : \E bad, good \in Children(FS, p) :
         /\ ImportResult(FS, bad) = "SyntaxError"
         /\ ImportResult(FS, good) = "ok"
         /\ good \in Routes(p)

RECURSIVE Discoverable(_, _)
\* the healthy descendants of a unit: the child packages whose router module
\* imports correctly, and theirs
Discoverable(fs, unit) ==
    UNION { {c} \cup Discoverable(fs, c) :
            c \in { x \in Children(fs, unit) : ImportResult(fs, x) = "ok" } }

\* C2: whenever a feature's routes are on a router it was mounted on, the
\* routes of all its healthy descendants are on that router too (the feature
\* was fully assembled when it was mounted), and after the boot the root
\* router holds the routes of every healthy descendant of the app root
C2_BottomUp ==
    /\ \A p \in DOMAIN routers :
         \A c \in Routes(p) \ {p} : Discoverable(FS, c) \subseteq Routes(p)
    /\ (phase = "done" => Discoverable(FS, AppRoot) \subseteq Routes(AppRoot))

\* after the boot the root router holds a route of a feature three levels
\* down and of its parent and grandparent
C2_Witness ==
    /\ phase = "done"
    /\ \E c \in Routes(AppRoot) :
         /\ Len(c) = Len(AppRoot) + 6
         /\ Parent(Parent(c)) \in Routes(AppRoot)
         /\ Parent(Parent(Parent(Parent(c)))) \in Routes(AppRoot)

-----------------------------------------------------------------------------
(* Claims on the commands (Spec) *)

\* C3: for a feature created in the features/ container of a unit, the
\* collector returns exactly the shared units in the shared/ container of
\* every level from the app root down to that unit: none missing, none from
\* elsewhere
C3_CollectorExact ==
    (AddedFeature /\ IsUnit(FS, OwnerUnit)) =>
      { FullImportPath(m) :
          m \in _collect_available_shared_modules(FS, lastCmd.container) }
        = { ImportPathOf(s) : s \in VisibleShared(FS, OwnerUnit) }

\* C4: after `add shared' put module S in the shared/ container of unit U,
\* every feature below U has a hint for S whose defining path is the
\* ImportPath of U
C4_PropagationNamesUnit ==
    (AddedShared /\ IsUnit(FS, OwnerUnit)) =>
      \A F \in FeaturesBelow(FS, OwnerUnit) :
        \E b \in StubBlocks(FS, F) :
          /\ b.name = <<Name(lastCmd.target)>>
          /\ b.base = ImportPathOf(OwnerUnit)
          /\ b.annot \in {<<>>, ImportPathOf(OwnerUnit)}

\* the features whose stub a step leaves as it was
StubKept(d) ==
    /\ d \o <<"__init__.py">> \in DOMAIN files'
    /\ files'[d \o <<"__init__.py">>] = files[d \o <<"__init__.py">>]

\* C5: an `add shared' that resolves the shared/ container of unit U changes
\* the stub of no feature outside the subtree of U (the siblings and the
\* ancestors of U keep their stub, so never come to list the module; a
\* command that fails before it resolves a container changes no stub at all)
C5_ScopedPropagation ==
    [][ (lastCmd'.kind = "shared" /\ ops' = ops + 1) =>
          \A d \in dirs :
            (/\ IsFeature(FS, d)
             /\ HasFile(FS, d, "__init__.py")
             /\ \/ lastCmd'.container = <<>>
                \/ ~IsPrefix(Parent(lastCmd'.container), d))
            => StubKept(d) ]_vars

\* `add shared' put a module in the shared/ container of a feature: a feature
\* nested in it has the hint, the feature itself and a sibling of it have not
C5_Witness ==
    /\ AddedShared
    /\ OwnerUnit # AppRoot
    /\ IsUnit(FS, OwnerUnit)
    /\ \E D \in FeaturesBelow(FS, OwnerUnit) : \E b \in StubBlocks(FS, D) :
         HintFor(b, OwnerUnit, Name(lastCmd.target))
    /\ \E N \in FeaturesBelow(FS, AppRoot) :
         /\ ~IsPrefix(OwnerUnit, N)
         /\ \A b \in StubBlocks(FS, N) :
              ~HintFor(b, OwnerUnit, Name(lastCmd.target))
    /\ \A b \in StubBlocks(FS, OwnerUnit) :
         ~HintFor(b, OwnerUnit, Name(lastCmd.target))

\* C6: after `add shared' ran again for a module that existed, every feature
\* below the unit has exactly one hint for the module
C6_PropagationIdempotent ==
    (AddedShared /\ lastCmd.existed /\ IsUnit(FS, OwnerUnit)) =>
      \A F \in FeaturesBelow(FS, OwnerUnit) :
        LET c == files[F \o <<"__init__.py">>]
        IN  Cardinality({ i \in 1..Len(c.blocks) :
                            HintFor(c.blocks[i], OwnerUnit,
                                    Name(lastCmd.target)) }) = 1

\* C7: the import line of every hint of every feature stub names a shared
\* unit by its ImportPath, the dotted path of its directory from the app root
C7_HintsNameImportPath ==
    \A F \in FeaturesBelow(FS, AppRoot) :
      \A b \in StubBlocks(FS, F) :
        \E s \in dirs : IsSharedUnit(FS, s) /\ FullImportPath(b) = ImportPathOf(s)

\* C8: when shared units of the same bare name exist at two levels a feature
\* sees, the collector returns one entry for each, with different full paths
C8_SameNameKeptApart ==
    (AddedFeature /\ IsUnit(FS, OwnerUnit)) =>
      \A s1, s2 \in VisibleShared(FS, OwnerUnit) :
        (s1 # s2 /\ Name(s1) = Name(s2)) =>
          \E m1, m2 \in _collect_available_shared_modules(FS, lastCmd.container) :
            /\ m1.name = <<Name(s1)>>
            /\ m2.name = <<Name(s1)>>
            /\ FullImportPath(m1) # FullImportPath(m2)

\* C9: after `add shared' put module S in the shared/ container of feature U,
\* the stub of U itself has a hint for S
C9_OwnStubAdvertises ==
    (AddedShared /\ OwnerUnit # AppRoot /\ IsUnit(FS, OwnerUnit)) =>
      \E b \in StubBlocks(FS, OwnerUnit) :
        HintFor(b, OwnerUnit, Name(lastCmd.target))

\* C10: a successful `add feature' or `add shared' with a nested name found
\* a feature with a router.py at every intermediate segment: each directory
\* between the container it resolved and the unit it wrote is such a feature
C10_IntermediateSegments ==
    (lastCmd.kind \in {"feature", "shared"} /\ lastCmd.exit = 0) =>
      \A q \in Prefixes(lastCmd.target) :
        (Len(q) > Len(lastCmd.container) /\ Len(q) < Len(lastCmd.target))
          => IsFeature(FS, q)

-----------------------------------------------------------------------------
(* Claims on removal (Spec) *)

\* the last command was a remove that found its unit and went on to delete it
Removed ==
    /\ lastCmd.kind \in {"remove_feature", "remove_shared"}
    /\ lastCmd.exit = 0
    /\ lastCmd.confirm
    /\ lastCmd.target # <<>>

\* C11: a forced `remove feature NAME' (`remove shared NAME') run right after
\* the successful `add feature NAME' (`add shared NAME') from the same
\* working directory resolves the directory the add created and deletes it
C11_RemoveResolvesAsAdd ==
    (/\ lastCmd.kind \in {"remove_feature", "remove_shared"}
     /\ lastCmd.redo # <<>>
     /\ lastCmd.confirm)
    => /\ lastCmd.exit = 0
       /\ lastCmd.target = lastCmd.redo
       /\ lastCmd.redo \notin dirs

\* C12: `add feature NAME' run right after add feature NAME and the forced
\* remove feature NAME, all three from the same working directory, succeeds
\* and writes the feature where the first add did, with the entry points and
\* the hints of a fresh creation on the current tree
C12_RemoveThenRecreate ==
    (lastCmd.kind = "feature" /\ lastCmd.redo # <<>>)
    => /\ lastCmd.exit = 0
       /\ lastCmd.target = lastCmd.redo
       /\ IsFeature(FS, lastCmd.redo)
       /\ HasFile(FS, lastCmd.redo, "service.py")
       /\ { FullImportPath(b) : b \in StubBlocks(FS, lastCmd.redo) }
            = { FullImportPath(m) :
                  m \in _collect_available_shared_modules(FS, lastCmd.container) }

\* the feature and shared units below the app root
UnitsUnderApp(fs) ==
    { d \in fs.dirs : /\ IsPrefix(AppRoot, d)
                      /\ d # AppRoot
                      /\ (IsFeature(fs, d) \/ IsSharedUnit(fs, d)) }

\* tests/app/<path relative to app> and docs/app/<path relative to app>
MirrorOf(top, d) == Proj \o <<top, "app">> \o SubSeq(d, Len(AppRoot) + 1, Len(d))

\* C13: every feature or shared unit under app/ has its tests/app/ and
\* docs/app/ directory, and a unit that was just removed has neither
C13_MirrorLockStep ==
    /\ \A d \in UnitsUnderApp(FS) :
         MirrorOf("tests", d) \in dirs /\ MirrorOf("docs", d) \in dirs
    /\ (Removed /\ IsPrefix(AppRoot, lastCmd.target)) =>
         /\ MirrorOf("tests", lastCmd.target) \notin dirs
         /\ MirrorOf("docs", lastCmd.target) \notin dirs

\* path p is there after the step as it was before it
Kept(p) ==
    /\ (p \in dirs => p \in dirs')
    /\ (p \in DOMAIN files => p \in DOMAIN files' /\ files'[p] = files[p])

\* C14: when a remove deletes a unit whose container is named features or
\* shared, the container goes too if nothing or only __init__.py was left in
\* it, and stays with every other entry as it was otherwise
C14_ContainerPruning ==
    [][ (/\ lastCmd'.kind \in {"remove_feature", "remove_shared"}
         /\ ops' = ops + 1
         /\ lastCmd'.exit = 0
         /\ lastCmd'.confirm
         /\ lastCmd'.target # <<>>
         /\ Name(lastCmd'.container) \in {"features", "shared"})
        => LET c == lastCmd'.container
               t == lastCmd'.target
               rest == Entries(FS, c) \ {t}
           IN  /\ t \notin dirs'
               /\ IF rest \subseteq {c \o <<"__init__.py">>}
                  THEN c \notin dirs'
                  ELSE /\ c \in dirs'
                       /\ \A p \in dirs \cup DOMAIN files :
                            (IsPrefix(c, p) /\ ~IsPrefix(t, p)) => Kept(p) ]_vars

\* a remove deleted the last unit of its container, and the container with it
C14_Witness ==
    /\ Removed
    /\ Name(lastCmd.container) \in {"features", "shared"}
    /\ lastCmd.container \notin dirs

\* C15: `remove shared NAME' leaves the stub of every feature that remains
\* as it was
C15_NoReversePropagation ==
    [][ (lastCmd'.kind = "remove_shared" /\ ops' = ops + 1)
        => \A d \in dirs' :
             (/\ d \in dirs
              /\ HasFile(FS, d, "router.py")
              /\ HasFile(FS, d, "__init__.py"))
             => Kept(d \o <<"__init__.py">>) ]_vars

\* a shared module was removed, and the stub of a feature still has the hint
\* for it
C15_Witness ==
    /\ Removed
    /\ lastCmd.kind = "remove_shared"
    /\ lastCmd.target \notin dirs
    /\ \E F \in FeaturesBelow(FS, Parent(lastCmd.container)) :
         \E b \in StubBlocks(FS, F) :
           HintFor(b, Parent(lastCmd.container), Name(lastCmd.target))

-----------------------------------------------------------------------------
(* Claims on the commands' preconditions (Spec) *)

\* no directory from cwd up to the filesystem root holds pyproject.toml
NotInProject(fs, cwd) ==
    \A q \in Prefixes(cwd) : ~HasFile(fs, q, "pyproject.toml")

\* the nearest project root above cwd has no app directory
NoAppDir(fs, cwd) ==
    \E q \in Prefixes(cwd) :
      /\ HasFile(fs, q, "pyproject.toml")
      /\ \A n \in Prefixes(cwd) :
           Len(n) > Len(q) => ~HasFile(fs, n, "pyproject.toml")
      /\ ~Exists(fs, q \o <<"app">>)

\* NAME is nested and its parent feature is missing or has no router.py
ParentInvalid(fs, parts) ==
    /\ Len(parts) > 1
    /\ ~IsFeature(fs, AppRoot \o <<"features", parts[1]>>)

\* NAME is plain and cwd is neither a container of the kind, nor a directory
\* with one, nor the project root of an app with one, nor a unit
UnrecognisedCwd(fs, kind, cwd, parts) ==
    /\ Len(parts) = 1
    /\ Name(cwd) # kind
    /\ ~Exists(fs, cwd \o <<kind>>)
    /\ ~(cwd = Proj /\ Exists(fs, AppRoot \o <<kind>>))
    /\ ~HasFile(fs, cwd, "router.py")
    /\ ~HasFile(fs, cwd, "service.py")
    /\ (kind = "shared" => ~Exists(fs, cwd \o <<"features">>))

PreconditionFails(fs, kind, cwd, parts) ==
    \/ NotInProject(fs, cwd)
    \/ NoAppDir(fs, cwd)
    \/ ParentInvalid(fs, parts)
    \/ UnrecognisedCwd(fs, kind, cwd, parts)

\* a command whose precondition fails exits with a non-zero code and leaves
\* the filesystem as it was, whatever the operator would answer
RejectedUntouched ==
    \A cwd \in Cwds \cap dirs, confirm \in BOOLEAN :
      /\ \A parts \in NameInputs(FeatureNames) :
           PreconditionFails(FS, "features", cwd, parts) =>
             LET r == add_feature(FS, cwd, parts, confirm)
             IN  r.exit # 0 /\ r.fs = FS
      /\ \A parts \in NameInputs(SharedNames) :
           PreconditionFails(FS, "shared", cwd, parts) =>
             LET r == add_shared(FS, cwd, parts, confirm)
             IN  r.exit # 0 /\ r.fs = FS

\* C16: `add feature' and `add shared' exit with a non-zero code when a
\* precondition fails (not inside a project, no app directory, parent feature
\* of a nested name missing or without router.py, working directory not
\* recognised), and every add that exits with a non-zero code, the one the
\* operator declined included, leaves the filesystem as it was
C16_AtomicFailure ==
    /\ []RejectedUntouched
    /\ [][ (/\ lastCmd'.kind \in {"feature", "shared"}
            /\ ops' = ops + 1
            /\ lastCmd'.exit # 0)
           => (dirs' = dirs /\ files' = files) ]_vars

\* the unit was there, the operator declined, the command exited with 1
C16_Witness ==
    /\ lastCmd.kind \in {"feature", "shared"}
    /\ lastCmd.exit = 1
    /\ lastCmd.existed
    /\ ~lastCmd.confirm
    /\ \E cwd \in Cwds \cap dirs, parts \in NameInputs(FeatureNames) :
         PreconditionFails(FS, "features", cwd, parts)

-----------------------------------------------------------------------------
(* utils.find_project_root on its own: the start directories of a chain     *)
(* /a/b/c where any of the four directories may hold pyproject.toml and any *)
(* may hold an app directory                                                *)

Chain == <<"a", "b", "c">>

InitRoot ==
    /\ \E marked \in SUBSET Prefixes(Chain), with_app \in SUBSET Prefixes(Chain) :
         /\ dirs = Prefixes(Chain) \cup { q \o <<"app">> : q \in with_app }
         /\ files = [p \in { q \o <<"pyproject.toml">> : q \in marked } |->
                       Content("pyproject", <<>>)]
    /\ lastCmd = NoCmd
    /\ ops = 0
    /\ phase = "cli"
    /\ stack = <<>>
    /\ routers = <<>>
    /\ corrupted = 0
    /\ db = NoDb
    /\ now = 0

\* a command starts: Path.cwd() goes to find_project_root
FindRoot ==
    /\ \E start_dir \in dirs :
         lastCmd' = [kind |-> "find", start_dir |-> start_dir,
                     result |-> find_project_root(FS, start_dir)]
    /\ UNCHANGED <<dirs, files, ops, phase, stack, routers, corrupted>>
    /\ UNCHANGED <<db, now>>

NextRoot == FindRoot

SpecRoot == InitRoot /\ [][NextRoot]_vars

\* the directories from start up to the filesystem root with pyproject.toml
Marked(fs, start) ==
    { q \in Prefixes(start) : HasFile(fs, q, "pyproject.toml") }

\* the nearest of them
Nearest(fs, start) ==
    CHOOSE q \in Marked(fs, start) : \A r \in Marked(fs, start) : Len(r) <= Len(q)

\* C17: find_project_root(start) returns (None, None) exactly when no
\* directory from start up to the filesystem root holds pyproject.toml;
\* otherwise it returns the nearest such directory P, with P/app when P/app
\* exists and with None when it does not
C17_ScopeResolution ==
    lastCmd.kind = "find" =>
      LET start == lastCmd.start_dir
          res == lastCmd.result
      IN  IF Marked(FS, start) = {} THEN ~res.found /\ ~res.has_app
          ELSE /\ res.found
               /\ res.project_root = Nearest(FS, start)
               /\ res.has_app = Exists(FS, Nearest(FS, start) \o <<"app">>)

\* two directories above an unmarked start hold pyproject.toml, the nearer
\* one has an app directory and is the one returned
C17_Witness ==
    /\ lastCmd.kind = "find"
    /\ Cardinality(Marked(FS, lastCmd.start_dir)) >= 2
    /\ lastCmd.start_dir \notin Marked(FS, lastCmd.start_dir)
    /\ lastCmd.result.project_root = Nearest(FS, lastCmd.start_dir)
    /\ lastCmd.result.has_app

-----------------------------------------------------------------------------
(* Claims on what a new feature gets *)

\* C18 (SpecBoot): after a boot with no router module broken, every feature
\* a successful `add feature' created under app/ has its routes on the root
\* router
C18_EveryFeatureMounted ==
    (phase = "done" /\ corrupted = 0) =>
      \A d \in dirs :
        (IsPrefix(AppRoot, d) /\ d # AppRoot /\ IsFeature(FS, d))
          => d \in Routes(AppRoot)

\* C19 (Spec): the stub of a feature `add feature' just created has one hint
\* block for each shared module the collector returns and no other, the
\* blocks in ascending order of full import path, and a block has the
\* "(from <defining path>)" annotation exactly when the collector returns
\* another module of the same bare name
C19_CreationStub ==
    (/\ lastCmd.kind = "feature"
     /\ lastCmd.exit = 0
     /\ lastCmd.target # <<>>
     /\ ~lastCmd.existed)
    => LET blocks == files[lastCmd.target \o <<"__init__.py">>].blocks
           found == _collect_available_shared_modules(FS, lastCmd.container)
           Entry(b) == [name |-> b.name, base |-> b.base]
       IN  /\ Len(blocks) = Cardinality(found)
           /\ { Entry(blocks[i]) : i \in 1..Len(blocks) } = found
           /\ \A i, j \in 1..Len(blocks) :
                i < j => LessSeq(FullImportPath(blocks[i]),
                                 FullImportPath(blocks[j]))
           /\ \A i \in 1..Len(blocks) :
                blocks[i].annot =
                  IF \E m \in found : /\ m.name = blocks[i].name
                                      /\ m # Entry(blocks[i])
                  THEN blocks[i].base
                  ELSE <<>>

\* a feature was created where two shared modules named alike are visible:
\* its stub has a block for each, both annotated, and a block without
\* annotation for a name that is visible once
C19_Witness ==
    /\ lastCmd.kind = "feature"
    /\ lastCmd.exit = 0
    /\ lastCmd.target # <<>>
    /\ ~lastCmd.existed
    /\ \E b1, b2, b3 \in StubBlocks(FS, lastCmd.target) :
         /\ b1 # b2
         /\ b1.name = b2.name
         /\ b1.annot = b1.base
         /\ b2.annot = b2.base
         /\ b3.annot = <<>>

-----------------------------------------------------------------------------
(* commands/structure.py: the structure inspector's classification, on its  *)
(* own: two directories /d and /d/e, each with any of router.py, service.py *)
(* and __init__.py                                                          *)

\* (is_unit, unit_type); unit_type "" is a plain directory
_is_octopus_unit(fs, path) ==
    IF ~IsDir(fs, path) THEN [is_unit |-> FALSE, unit_type |-> ""]
    ELSE LET has_router == Exists(fs, path \o <<"router.py">>)
             has_service == Exists(fs, path \o <<"service.py">>)
             has_init == Exists(fs, path \o <<"__init__.py">>)
         IN  IF has_router /\ has_service
             THEN [is_unit |-> TRUE, unit_type |-> "feature"]
             ELSE IF has_service /\ has_init /\ ~has_router
             THEN [is_unit |-> TRUE, unit_type |-> "shared"]
             ELSE [is_unit |-> FALSE, unit_type |-> ""]

EntryPoints == {"router.py", "service.py", "__init__.py"}

InspectedDirs == { <<"d">>, <<"d", "e">> }

InitClassify ==
    /\ \E in_d \in SUBSET EntryPoints, in_e \in SUBSET EntryPoints :
         /\ dirs = {<<>>} \cup InspectedDirs
         /\ files = [p \in { <<"d", f>> : f \in in_d }
                             \cup { <<"d", "e", f>> : f \in in_e } |->
                       Content("empty", <<>>)]
    /\ lastCmd = NoCmd
    /\ ops = 0
    /\ phase = "cli"
    /\ stack = <<>>
    /\ routers = <<>>
    /\ corrupted = 0
    /\ db = NoDb
    /\ now = 0

\* _build_tree comes to an entry and classifies it
Classify ==
    /\ \E path \in (dirs \cup DOMAIN files) \ {<<>>} :
         lastCmd' = [kind |-> "classify", path |-> path,
                     result |-> _is_octopus_unit(FS, path)]
    /\ UNCHANGED <<dirs, files, ops, phase, stack, routers, corrupted>>
    /\ UNCHANGED <<db, now>>

NextClassify == Classify

SpecClassify == InitClassify /\ [][NextClassify]_vars

\* C20: the inspector gives a directory one class: feature when router.py is
\* there (the test `add' and `remove' make for a valid feature), shared when
\* router.py is not there and service.py is, plain when neither is
C20_Classification ==
    (lastCmd.kind = "classify" /\ IsDir(FS, lastCmd.path)) =>
      LET has_router == HasFile(FS, lastCmd.path, "router.py")
          has_service == HasFile(FS, lastCmd.path, "service.py")
      IN  lastCmd.result.unit_type =
            IF has_router THEN "feature"
            ELSE IF has_service THEN "shared"
            ELSE ""

-----------------------------------------------------------------------------
(* commands/structure.py: `octopus structure' on the project that `init'    *)
(* and a few `add' commands leave                                           *)

\* number of `add' commands before the tree is shown (SpecTree)
MaxTreeOps == 2
\* largest --depth the operator passes
MaxDepth == 4

\* names of the model that start with "."
DotNames == {".env", ".env.example", ".gitignore"}

_should_skip(name) == name \in {"tests", "docs"} \/ name \in DotNames

\* an extraction that finds no decorator
_extract_routes_None(fs, router_path) == <<>>

\* the "METHOD path" strings the pattern @router.<method>("<path>") finds:
\* of the templates only the feature router has such a decorator
_extract_routes(fs, router_path) ==
    IF router_path \notin DOMAIN fs.files THEN <<>>
    ELSE IF fs.files[router_path].tpl = "feature_router"
    THEN << [method |-> "GET", path |-> "/status"] >>
    ELSE <<>>

\* a container that takes a level of its own
ContainerDepth_Consuming(current_depth) == current_depth + 1

\* the depth the entries of a features/ or shared/ container are shown at
ContainerDepth(current_depth) == current_depth

\* a node of the rendered tree: the entry it stands for, the node it hangs
\* under (the root node is the project directory), its kind, the routes its
\* label counts and lists, and the depth of the call that added it
Node(item, tree, kind, routes, current_depth) ==
    [path |-> item, under |-> tree, kind |-> kind, routes |-> routes,
     depth |-> current_depth]

RECURSIVE _build_tree(_, _, _, _, _, _)
\* the nodes _build_tree adds below `tree' for the entries of `path'
_build_tree(fs, path, tree, max_depth, current_depth, show_files) ==
    IF current_depth >= max_depth THEN {}
    ELSE
    LET Below(item, branch, depth) ==
            _build_tree(fs, item, branch, max_depth, depth, show_files)
        Shown(item) ==
            IF _should_skip(Name(item)) THEN {}
            ELSE IF IsDir(fs, item)
            THEN IF Name(item) = "app"
                 THEN {Node(item, tree, "app", <<>>, current_depth)}
                      \cup Below(item, item, current_depth + 1)
                 ELSE IF Name(item) \in {"features", "shared"}
                 THEN Below(item, tree, ContainerDepth(current_depth))
                 ELSE LET unit == _is_octopus_unit(fs, item)
                          routes == IF unit.unit_type = "feature"
                                    THEN _extract_routes(fs, item \o <<"router.py">>)
                                    ELSE <<>>
                          kind == IF unit.is_unit THEN unit.unit_type ELSE "dir"
                      IN  {Node(item, tree, kind, routes, current_depth)}
                          \cup Below(item, item, current_depth + 1)
            ELSE IF show_files
                 THEN {Node(item, tree, "file", <<>>, current_depth)}
                 ELSE {}
    IN  UNION { Shown(item) : item \in Entries(fs, path) }

\* show_structure run in current_dir without --path: the exit code and the
\* tree it prints
show_structure(fs, current_dir, depth, show_files) ==
    LET root == find_project_root(fs, current_dir)
    IN  IF ~root.found THEN [exit |-> 1, project_path |-> <<>>, nodes |-> {}]
        ELSE [exit |-> 0, project_path |-> root.project_root,
              nodes |-> _build_tree(fs, root.project_root, root.project_root,
                                    depth, 0, show_files)]

\* names and working directories of the commands that precede the display
TreeFeatureNames == {"orders", "u"}
TreeSharedNames == {"u"}
TreeCwds == { Proj, AppRoot \o <<"features", "u">> }

PlantFeature ==
    /\ phase = "cli"
    /\ ops < MaxTreeOps
    /\ \E cwd \in TreeCwds \cap dirs, parts \in NameInputs(TreeFeatureNames) :
       \E r \in {add_feature(FS, cwd, parts, TRUE)} :
         /\ dirs' = r.fs.dirs
         /\ files' = r.fs.files
         /\ lastCmd' = Cmd("feature", cwd, parts, TRUE, r, Prompted(r), <<>>)
    /\ ops' = ops + 1
    /\ UNCHANGED <<phase, stack, routers, corrupted>>
    /\ UNCHANGED <<db, now>>

PlantShared ==
    /\ phase = "cli"
    /\ ops < MaxTreeOps
    /\ \E cwd \in TreeCwds \cap dirs, parts \in NameInputs(TreeSharedNames) :
       \E r \in {add_shared(FS, cwd, parts, TRUE)} :
         /\ dirs' = r.fs.dirs
         /\ files' = r.fs.files
         /\ lastCmd' = Cmd("shared", cwd, parts, TRUE, r, Prompted(r), <<>>)
    /\ ops' = ops + 1
    /\ UNCHANGED <<phase, stack, routers, corrupted>>
    /\ UNCHANGED <<db, now>>

Structure ==
    /\ phase = "cli"
    /\ \E cwd \in (TreeCwds \cup {<<>>}) \cap dirs, depth \in 0..MaxDepth,
          show_files \in BOOLEAN :
       \E r \in {show_structure(FS, cwd, depth, show_files)} :
         lastCmd' = [kind |-> "structure", depth |-> depth,
                     show_files |-> show_files, exit |-> r.exit,
                     project_path |-> r.project_path, nodes |-> r.nodes]
    /\ UNCHANGED <<dirs, files, ops, phase, stack, routers, corrupted>>
    /\ UNCHANGED <<db, now>>

NextTree == PlantFeature \/ PlantShared \/ Structure

SpecTree == Init /\ [][NextTree]_vars

-----------------------------------------------------------------------------
(* Claims on the rendered tree *)

ContainerNames == {"features", "shared"}

RECURSIVE Owner(_)
\* the nearest directory above p that is not a container
Owner(p) ==
    IF Name(Parent(p)) \in ContainerNames THEN Owner(Parent(p)) ELSE Parent(p)

TreeShown == lastCmd.kind = "structure" /\ lastCmd.exit = 0

\* the node that stands for p in the tree last printed
NodeOf(p) == CHOOSE n \in lastCmd.nodes : n.path = p

HasNode(p) == \E n \in lastCmd.nodes : n.path = p

\* the level the children of node t are at; the root node is the project
LevelBelow(t) == IF t = lastCmd.project_path THEN 0 ELSE NodeOf(t).depth + 1

\* C21 (SpecTree): the tree `structure' prints has no node for a directory
\* named features or shared; every node hangs under the nearest directory
\* above it that is not a container, one level below that node, and a unit
\* inside a container is in the tree whenever the container's owner is and
\* the depth limit leaves a level below the owner
C21_ContainerSplicing ==
    TreeShown =>
      /\ \A n \in lastCmd.nodes :
           /\ n.kind # "file" => Name(n.path) \notin ContainerNames
           /\ n.under = Owner(n.path)
           /\ n.under = lastCmd.project_path \/ HasNode(n.under)
           /\ n.depth = LevelBelow(n.under)
      /\ \A p \in dirs :
           (/\ Name(Parent(p)) \in ContainerNames
            /\ Name(p) \notin ContainerNames
            /\ HasNode(Owner(p))
            /\ LevelBelow(Owner(p)) < lastCmd.depth)
           => HasNode(p)

\* a feature inside app/features/u/features is shown right under u, two
\* levels below app
C21_Witness ==
    /\ TreeShown
    /\ \E n \in lastCmd.nodes :
         /\ Parent(n.path) = AppRoot \o <<"features", "u", "features">>
         /\ n.kind = "feature"
         /\ n.under = AppRoot \o <<"features", "u">>
         /\ n.depth = 2

Orders == AppRoot \o <<"features", "orders">>

\* C22 (SpecTree): once `add feature orders' has run from the project root,
\* `structure' at a depth of two or more (the default is four) shows orders
\* as a feature node right under the app node, and the node counts one
\* route, GET /status, the one decorator of the generated router.py
C22_EndToEnd ==
    (/\ TreeShown
     /\ lastCmd.depth >= 2
     /\ IsDir(FS, Orders))
    => /\ HasNode(Orders)
       /\ NodeOf(Orders).kind = "feature"
       /\ NodeOf(Orders).under = AppRoot
       /\ HasNode(AppRoot)
       /\ NodeOf(AppRoot).under = lastCmd.project_path
       /\ NodeOf(Orders).routes = << [method |-> "GET", path |-> "/status"] >>

\* init, `add feature orders', `structure' with the default depth
C22_Witness ==
    /\ TreeShown
    /\ ops = 1
    /\ lastCmd.depth = 4
    /\ HasNode(Orders)
    /\ Len(NodeOf(Orders).routes) = 1

-----------------------------------------------------------------------------
(* Claims on the order and the repetition of discovery *)

\* the place of route c in the route table of unit p
PlaceOf(p, c) == CHOOSE i \in 1..Len(routers[p]) : routers[p][i] = c

\* C23 (SpecBoot): the children a discovery still has to visit are the tail
\* of the unit's child packages in ascending order of directory name, a
\* function of the directory tree alone, and the routes of two children are
\* on the parent's router in the order of the children's names
C23_DeterministicOrder ==
    /\ \A k \in 1..Len(stack) :
         LET all == ChildPackages(FS, stack[k].unit)
             todo == stack[k].todo
         IN  /\ Len(todo) <= Len(all)
             /\ todo = SubSeq(all, Len(all) - Len(todo) + 1, Len(all))
             /\ \A i, j \in 1..Len(all) :
                  i < j => Rank(Name(all[i])) < Rank(Name(all[j]))
    /\ \A p \in DOMAIN routers :
         \A c1, c2 \in Children(FS, p) \cap Routes(p) :
           Rank(Name(c1)) < Rank(Name(c2)) => PlaceOf(p, c1) < PlaceOf(p, c2)

\* after the boot a router holds the routes of two of its children
C23_Witness ==
    /\ phase = "done"
    /\ \E p \in DOMAIN routers : \E c1, c2 \in Children(FS, p) \cap Routes(p) :
         /\ c1 # c2
         /\ PlaceOf(p, c1) < PlaceOf(p, c2)

RECURSIVE Remount(_, _, _)
\* the loop of auto_discover_routers in a process that has booted: the
\* router modules are in sys.modules, import_module hands them back without
\* running their bodies, and include_router adds the child's routes to the
\* parent's another time; a module whose import failed is run again and
\* fails again on an unchanged tree
Remount(fs, parent_routes, todo) ==
    IF todo = <<>> THEN parent_routes
    ELSE Remount(fs,
                 IF ImportResult(fs, Head(todo)) = "ok"
                    /\ Head(todo) \in DOMAIN routers
                 THEN include_router(parent_routes, routers[Head(todo)])
                 ELSE parent_routes,
                 Tail(todo))

\* auto_discover_routers(router, __file__, __package__) is called a second
\* time for a unit whose router the boot assembled
Rediscover ==
    /\ phase = "done"
    /\ \E unit \in DOMAIN routers :
         /\ routers' = [routers EXCEPT ![unit] =
                          Remount(FS, @, ChildPackages(FS, unit))]
         /\ lastCmd' = [kind |-> "rediscover", unit |-> unit,
                        before |-> routers[unit]]
    /\ phase' = "rerun"
    /\ UNCHANGED <<dirs, files, ops, stack, corrupted>>
    /\ UNCHANGED <<db, now>>

NextRerun ==
    \/ Scaffold
    \/ Corrupt
    \/ BootStart
    \/ ImportChild
    \/ ImportFail
    \/ Mount
    \/ BootDone
    \/ Rediscover

SpecRerun == Init /\ [][NextRerun]_vars

\* C24 (SpecRerun): a second discovery for a unit on an unchanged tree
\* leaves the unit's route table as the first one made it, and no route is
\* in the table twice
C24_RediscoverIdempotent ==
    phase = "rerun" =>
      LET table == routers[lastCmd.unit]
      IN  /\ table = lastCmd.before
          /\ \A i, j \in 1..Len(table) : i # j => table[i] # table[j]

-----------------------------------------------------------------------------
(* The chat application: app/core/security.py, app/core/bootstrap.py and    *)
(* app/features/api_keys.  A request is handled in one step: its            *)
(* dependencies, then its endpoint.  A key's secret is written as the id of *)
(* its row (both are unique and never given twice); the audit log and the   *)
(* rate limiter are left out: the requests come slower than the limits.     *)

\* number of rows the api_keys table ever gets
MaxKeys == 2
\* number of ticks of the clock
MaxTime == 1

\* a column that holds NULL
None == -1

ClientIp == "testclient"

\* the columns of an api_keys row the handlers read or write
KeyRow(id, scopes, expires_at, allowed_ips) ==
    [key |-> id, scopes |-> scopes, is_active |-> TRUE,
     expires_at |-> expires_at, allowed_ips |-> allowed_ips,
     last_used_at |-> None]

\* the outcome of a request: the status of the response and the database
Response(status, d) == [status |-> status, db |-> d]

\* a check of the expiry that lets every key through
Expired_Never(row, t) == FALSE

\* security.py 55-58: the key has an expiry and it lies before the clock
Expired(row, t) == row.expires_at # None /\ row.expires_at < t

\* verify_api_key: the row of the key when it authenticates (0 when it does
\* not), and the database with last_used_at set
verify_api_key(d, t, octopus_api_key, client_ip) ==
    LET found == { id \in DOMAIN d.api_keys :
                     /\ d.api_keys[id].key = octopus_api_key
                     /\ d.api_keys[id].is_active }
    IN  IF found = {} THEN [status |-> 403, current |-> 0, db |-> d]
        ELSE LET id == CHOOSE i \in found : TRUE
                 db_key == d.api_keys[id]
             IN  IF Expired(db_key, t)
                 THEN [status |-> 403, current |-> 0, db |-> d]
                 ELSE IF db_key.allowed_ips # {}
                         /\ client_ip \notin db_key.allowed_ips
                 THEN [status |-> 403, current |-> 0, db |-> d]
                 ELSE [status |-> 200, current |-> id,
                       db |-> [d EXCEPT !.api_keys[id].last_used_at = t]]

\* APIKeyService.verify_key_has_scope(api_key, "admin")
HasAdmin(row) == "admin" \in row.scopes

\* db.add of a new api_keys row
InsertKey(d, scopes, expires_at, allowed_ips) ==
    [d EXCEPT !.api_keys = (d.next_key_id :>
                              KeyRow(d.next_key_id, scopes, expires_at,
                                     allowed_ips)) @@ @,
              !.next_key_id = @ + 1]

\* APIKeyService.deactivate_api_key on a row that exists
DeactivateRow(d, id) == [d EXCEPT !.api_keys[id].is_active = FALSE]

\* db.delete of a row
DeleteRow(d, id) ==
    [d EXCEPT !.api_keys = [i \in DOMAIN @ \ {id} |-> @[i]]]

\* POST /bootstrap
bootstrap(d) ==
    IF DOMAIN d.api_keys # {} THEN Response(400, d)
    ELSE Response(200, InsertKey(d, {"admin", "read", "write"}, None, {}))

\* what an endpoint behind Depends(verify_api_key) that asks for the admin
\* scope starts from: whether both have passed, the current key id and the
\* database after authentication
Guarded(d, t, key) ==
    LET auth == verify_api_key(d, t, key, ClientIp)
    IN  IF auth.status # 200
        THEN [passed |-> FALSE, current |-> None, db |-> d]
        ELSE [passed |-> HasAdmin(auth.db.api_keys[auth.current]),
              current |-> auth.current, db |-> auth.db]

\* GET /api-keys/
list_api_keys(d, t, key) ==
    LET auth == Guarded(d, t, key)
        current == auth.current
        a == auth.db
    IN  IF ~auth.passed THEN Response(403, a)
        ELSE
            Response(200, a)

\* POST /api-keys/
create_api_key(d, t, key, data) ==
    LET auth == Guarded(d, t, key)
        current == auth.current
        a == auth.db
    IN  IF ~auth.passed THEN Response(403, a)
        ELSE
            Response(201, InsertKey(a, data.scopes, data.expires_at,
                                    data.allowed_ips))

\* a self-test that never fires
IsCurrent_Never(current, api_key_id) == FALSE

\* current_key.id == api_key_id
IsCurrent(current, api_key_id) == current = api_key_id

\* PATCH /api-keys/{api_key_id}: the fields of api_key_update that were set
update_api_key(d, t, key, api_key_id, update_data) ==
    LET auth == Guarded(d, t, key)
        current == auth.current
        a == auth.db
    IN  IF ~auth.passed THEN Response(403, a)
        ELSE
            IF api_key_id \notin DOMAIN a.api_keys THEN Response(404, a)
            ELSE Response(200,
                   [a EXCEPT !.api_keys[api_key_id] =
                      [f \in DOMAIN @ |->
                         IF f \in DOMAIN update_data THEN update_data[f]
                         ELSE @[f]]])

\* POST /api-keys/{api_key_id}/deactivate
deactivate_api_key(d, t, key, api_key_id) ==
    LET auth == Guarded(d, t, key)
        current == auth.current
        a == auth.db
    IN  IF ~auth.passed THEN Response(403, a)
        ELSE
            IF IsCurrent(current, api_key_id) THEN Response(400, a)
            ELSE IF api_key_id \notin DOMAIN a.api_keys THEN Response(404, a)
            ELSE Response(200, DeactivateRow(a, api_key_id))

\* DELETE /api-keys/{api_key_id}
delete_api_key(d, t, key, api_key_id) ==
    LET auth == Guarded(d, t, key)
        current == auth.current
        a == auth.db
    IN  IF ~auth.passed THEN Response(403, a)
        ELSE
            IF IsCurrent(current, api_key_id) THEN Response(400, a)
            ELSE IF api_key_id \notin DOMAIN a.api_keys THEN Response(404, a)
            ELSE Response(204, DeleteRow(a, api_key_id))

\* POST /api-keys/{api_key_id}/rotate
rotate_api_key(d, t, key, api_key_id) ==
    LET auth == Guarded(d, t, key)
        current == auth.current
        a == auth.db
    IN  IF ~auth.passed THEN Response(403, a)
        ELSE
            IF api_key_id \notin DOMAIN a.api_keys THEN Response(404, a)
            ELSE LET old_key == a.api_keys[api_key_id]
                 IN  Response(200,
                       DeactivateRow(InsertKey(a, old_key.scopes,
                                               old_key.expires_at,
                                               old_key.allowed_ips),
                                     api_key_id))

\* POST /api-keys/cleanup-expired/
cleanup_expired_keys(d, t, key) ==
    LET auth == Guarded(d, t, key)
        current == auth.current
        a == auth.db
    IN  IF ~auth.passed THEN Response(403, a)
        ELSE
            Response(200,
              [a EXCEPT !.api_keys =
                 [i \in DOMAIN @ |->
                    IF /\ @[i].is_active
                       /\ @[i].expires_at # None
                       /\ @[i].expires_at <= t
                    THEN [@[i] EXCEPT !.is_active = FALSE]
                    ELSE @[i]]])

\* what the clients send
PresentedKeys == 1..MaxKeys
KeyIds == 1..MaxKeys
CreateData ==
    { [scopes |-> {"admin"}, expires_at |-> None, allowed_ips |-> {}],
      [scopes |-> {"read"}, expires_at |-> None, allowed_ips |-> {}],
      [scopes |-> {"admin"}, expires_at |-> 0, allowed_ips |-> {}],
      [scopes |-> {"admin"}, expires_at |-> None,
       allowed_ips |-> {"10.0.0.1"}] }
UpdateData ==
    { [is_active |-> b] : b \in BOOLEAN } \cup { [expires_at |-> None] }

Request(kind, key, target, r) ==
    [kind |-> kind, key |-> key, target |-> target, status |-> r.status]

RoomForKey == db.next_key_id <= MaxKeys

InitKeys ==
    /\ dirs = {}
    /\ files = <<>>
    /\ lastCmd = NoCmd
    /\ ops = 0
    /\ phase = "serving"
    /\ stack = <<>>
    /\ routers = <<>>
    /\ corrupted = 0
    /\ db = NoDb
    /\ now = 0

Tick ==
    /\ now < MaxTime
    /\ now' = now + 1
    /\ UNCHANGED <<dirs, files, lastCmd, ops, phase, stack, routers, corrupted>>
    /\ UNCHANGED db

Bootstrap ==
    /\ DOMAIN db.api_keys = {} => RoomForKey
    /\ \E r \in {bootstrap(db)} :
         /\ db' = r.db
         /\ lastCmd' = Request("bootstrap", 0, 0, r)
    /\ UNCHANGED <<dirs, files, ops, phase, stack, routers, corrupted>>
    /\ UNCHANGED now

ListKeys ==
    /\ \E key \in PresentedKeys :
       \E r \in {list_api_keys(db, now, key)} :
         /\ db' = r.db
         /\ lastCmd' = Request("list", key, 0, r)
    /\ UNCHANGED <<dirs, files, ops, phase, stack, routers, corrupted>>
    /\ UNCHANGED now

CreateKey ==
    /\ RoomForKey
    /\ \E key \in PresentedKeys, data \in CreateData :
       \E r \in {create_api_key(db, now, key, data)} :
         /\ db' = r.db
         /\ lastCmd' = Request("create", key, 0, r)
    /\ UNCHANGED <<dirs, files, ops, phase, stack, routers, corrupted>>
    /\ UNCHANGED now

UpdateKey ==
    /\ \E key \in PresentedKeys, api_key_id \in KeyIds, data \in UpdateData :
       \E r \in {update_api_key(db, now, key, api_key_id, data)} :
         /\ db' = r.db
         /\ lastCmd' = Request("update", key, api_key_id, r)
    /\ UNCHANGED <<dirs, files, ops, phase, stack, routers, corrupted>>
    /\ UNCHANGED now

DeactivateKey ==
    /\ \E key \in PresentedKeys, api_key_id \in KeyIds :
       \E r \in {deactivate_api_key(db, now, key, api_key_id)} :
         /\ db' = r.db
         /\ lastCmd' = Request("deactivate", key, api_key_id, r)
    /\ UNCHANGED <<dirs, files, ops, phase, stack, routers, corrupted>>
    /\ UNCHANGED now

DeleteKey ==
    /\ \E key \in PresentedKeys, api_key_id \in KeyIds :
       \E r \in {delete_api_key(db, now, key, api_key_id)} :
         /\ db' = r.db
         /\ lastCmd' = Request("delete", key, api_key_id, r)
    /\ UNCHANGED <<dirs, files, ops, phase, stack, routers, corrupted>>
    /\ UNCHANGED now

RotateKey ==
    /\ RoomForKey
    /\ \E key \in PresentedKeys, api_key_id \in KeyIds :
       \E r \in {rotate_api_key(db, now, key, api_key_id)} :
         /\ db' = r.db
         /\ lastCmd' = Request("rotate", key, api_key_id, r)
    /\ UNCHANGED <<dirs, files, ops, phase, stack, routers, corrupted>>
    /\ UNCHANGED now

CleanupExpired ==
    /\ \E key \in PresentedKeys :
       \E r \in {cleanup_expired_keys(db, now, key)} :
         /\ db' = r.db
         /\ lastCmd' = Request("cleanup", key, 0, r)
    /\ UNCHANGED <<dirs, files, ops, phase, stack, routers, corrupted>>
    /\ UNCHANGED now

NextKeys ==
    \/ Tick
    \/ Bootstrap
    \/ ListKeys
    \/ CreateKey
    \/ UpdateKey
    \/ DeactivateKey
    \/ DeleteKey
    \/ RotateKey
    \/ CleanupExpired

SpecKeys == InitKeys /\ [][NextKeys]_vars

-----------------------------------------------------------------------------
(* Claims on the API keys (SpecKeys) *)

\* the requests that go through verify_api_key
AuthKinds == {"list", "create", "update", "deactivate", "delete", "rotate",
              "cleanup"}

\* the step is a request of one of these kinds (the clock stands still
\* while a request is handled)
RequestStep(kinds) == now' = now /\ lastCmd'.kind \in kinds

\* the key presented does not authenticate: no row, or an inactive one, or
\* one whose expiry is past
Unusable(d, t, key) ==
    \A id \in DOMAIN d.api_keys :
      d.api_keys[id].key = key =>
        \/ ~d.api_keys[id].is_active
        \/ (d.api_keys[id].expires_at # None /\ d.api_keys[id].expires_at < t)

\* C25 (SpecKeys): a request that presents a key whose row is inactive or
\* whose expires_at lies in the past gets 403 and leaves every row as it was
\* (last_used_at included), whatever happened to the key before
C25_InactiveOrExpiredRejected ==
    [][ (RequestStep(AuthKinds) /\ Unusable(db, now, lastCmd'.key))
        => (lastCmd'.status = 403 /\ db' = db) ]_vars

\* a request with a key that was deactivated and one with a key that has
\* expired have both been turned down
C25_Witness ==
    /\ lastCmd.kind \in AuthKinds
    /\ lastCmd.status = 403
    /\ lastCmd.key \in DOMAIN db.api_keys
    /\ \E a, b \in DOMAIN db.api_keys :
         /\ ~db.api_keys[a].is_active
         /\ db.api_keys[a].last_used_at # None
         /\ db.api_keys[b].is_active
         /\ db.api_keys[b].expires_at # None
         /\ db.api_keys[b].expires_at < now
         /\ lastCmd.key \in {a, b}

\* C26 (SpecKeys): a key-management request authenticated with key K leaves
\* K in the table and active, and a deactivate or delete request aimed at K
\* itself gets 400 and leaves K's row as the authentication left it
C26_CurrentKeyProtected ==
    [][ (/\ RequestStep(AuthKinds)
         /\ verify_api_key(db, now, lastCmd'.key, ClientIp).status = 200)
        => LET auth == verify_api_key(db, now, lastCmd'.key, ClientIp)
               K == auth.current
           IN  /\ K \in DOMAIN db'.api_keys
               /\ db'.api_keys[K].is_active
               /\ (/\ lastCmd'.kind \in {"deactivate", "delete"}
                   /\ lastCmd'.target = K)
                  => /\ lastCmd'.status = 400
                     /\ db'.api_keys[K] = auth.db.api_keys[K] ]_vars

\* C28 (SpecKeys): POST /bootstrap answers 200 exactly when the table has no
\* row and 400 otherwise; it succeeds only while no key was ever created,
\* so at most once, and a refused call changes nothing
C28_BootstrapOnce ==
    [][ RequestStep({"bootstrap"})
        => /\ lastCmd'.status = (IF DOMAIN db.api_keys = {} THEN 200 ELSE 400)
           /\ lastCmd'.status = 200
                => /\ db.next_key_id = 1
                   /\ DOMAIN db'.api_keys = {1}
                   /\ HasAdmin(db'.api_keys[1])
           /\ lastCmd'.status = 400 => db' = db ]_vars

\* bootstrap was refused after its key had deleted the only other key
C28_Witness ==
    /\ lastCmd.kind = "bootstrap"
    /\ lastCmd.status = 400
    /\ db.next_key_id > 2
    /\ Cardinality(DOMAIN db.api_keys) = 1

-----------------------------------------------------------------------------
(* app/features/conversations: every endpoint sits behind                   *)
(* Depends(verify_api_key); the users table is filled beforehand            *)

\* number of conversations and of messages ever stored
MaxConversations == 1
MaxMessages == 2

\* the users table and the key `bootstrap' made
ChatUsers == {1, 2}

\* what the clients send as user_id: nothing, an id with no user, the users
UserIdInputs == {None, 0, 1, 2, 3}
RoleInputs == {"user", "robot"}
ConversationIds == 1..(MaxConversations + 1)

\* router.py 116-118: `if message.user_id:' is the truth value of the id, so
\* the list of participants is looked at for an id that is neither None nor 0
NotParticipant(user_id, participants) ==
    /\ user_id # None
    /\ user_id # 0
    /\ user_id \notin participants

\* the router-level dependency: whether it has passed, and the database
\* after authentication
Authenticated(d, t, key) ==
    LET auth == verify_api_key(d, t, key, ClientIp)
    IN  IF auth.status # 200 THEN [passed |-> FALSE, db |-> d]
        ELSE [passed |-> TRUE, db |-> auth.db]

\* POST /conversations/: the users among participant_ids join
create_conversation(d, t, key, participant_ids) ==
    LET auth == Authenticated(d, t, key)
        a == auth.db
    IN  IF ~auth.passed THEN Response(403, a)
        ELSE
            Response(201,
              [a EXCEPT !.conversations =
                          (a.next_conversation_id :>
                             (participant_ids \cap a.users)) @@ @,
                        !.next_conversation_id = @ + 1])

\* POST /conversations/{conversation_id}/participants
add_participant(d, t, key, conversation_id, user_id) ==
    LET auth == Authenticated(d, t, key)
        a == auth.db
    IN  IF ~auth.passed THEN Response(403, a)
        ELSE
            IF conversation_id \notin DOMAIN a.conversations
               \/ user_id \notin a.users
            THEN Response(404, a)
            ELSE Response(201, [a EXCEPT !.conversations[conversation_id] =
                                           @ \cup {user_id}])

\* DELETE /conversations/{conversation_id}/participants/{user_id}
remove_participant(d, t, key, conversation_id, user_id) ==
    LET auth == Authenticated(d, t, key)
        a == auth.db
    IN  IF ~auth.passed THEN Response(403, a)
        ELSE
            IF conversation_id \notin DOMAIN a.conversations
               \/ user_id \notin a.users
            THEN Response(404, a)
            ELSE Response(200, [a EXCEPT !.conversations[conversation_id] =
                                           @ \ {user_id}])

\* POST /conversations/{conversation_id}/messages
add_message(d, t, key, conversation_id, message) ==
    LET auth == Authenticated(d, t, key)
        a == auth.db
    IN  IF ~auth.passed THEN Response(403, a)
        ELSE
            IF conversation_id \notin DOMAIN a.conversations
            THEN Response(404, a)
            ELSE IF message.role \notin {"user", "assistant", "system"}
            THEN Response(400, a)
            ELSE IF NotParticipant(message.user_id,
                                   a.conversations[conversation_id])
            THEN Response(403, a)
            ELSE Response(201,
                   [a EXCEPT !.messages =
                      Append(@, [conversation_id |-> conversation_id,
                                 role |-> message.role,
                                 user_id |-> message.user_id])])

ChatRequest(kind, key, conversation_id, user_id, role, r) ==
    [kind |-> kind, key |-> key, conversation_id |-> conversation_id,
     user_id |-> user_id, role |-> role, status |-> r.status]

InitChat ==
    /\ dirs = {}
    /\ files = <<>>
    /\ lastCmd = NoCmd
    /\ ops = 0
    /\ phase = "serving"
    /\ stack = <<>>
    /\ routers = <<>>
    /\ corrupted = 0
    /\ db = [bootstrap(NoDb).db EXCEPT !.users = ChatUsers]
    /\ now = 0

CreateConversation ==
    /\ db.next_conversation_id <= MaxConversations
    /\ \E key \in PresentedKeys, participant_ids \in SUBSET {1, 3} :
       \E r \in {create_conversation(db, now, key, participant_ids)} :
         /\ db' = r.db
         /\ lastCmd' = ChatRequest("create_conversation", key, 0, None, "", r)
    /\ UNCHANGED <<dirs, files, ops, phase, stack, routers, corrupted>>
    /\ UNCHANGED now

AddParticipant ==
    /\ \E key \in PresentedKeys, conversation_id \in ConversationIds,
          user_id \in UserIdInputs \ {None} :
       \E r \in {add_participant(db, now, key, conversation_id, user_id)} :
         /\ db' = r.db
         /\ lastCmd' = ChatRequest("add_participant", key, conversation_id,
                                   user_id, "", r)
    /\ UNCHANGED <<dirs, files, ops, phase, stack, routers, corrupted>>
    /\ UNCHANGED now

RemoveParticipant ==
    /\ \E key \in PresentedKeys, conversation_id \in ConversationIds,
          user_id \in UserIdInputs \ {None} :
       \E r \in {remove_participant(db, now, key, conversation_id, user_id)} :
         /\ db' = r.db
         /\ lastCmd' = ChatRequest("remove_participant", key, conversation_id,
                                   user_id, "", r)
    /\ UNCHANGED <<dirs, files, ops, phase, stack, routers, corrupted>>
    /\ UNCHANGED now

AddMessage ==
    /\ Len(db.messages) < MaxMessages
    /\ \E key \in PresentedKeys, conversation_id \in ConversationIds,
          user_id \in UserIdInputs, role \in RoleInputs :
       \E r \in {add_message(db, now, key, conversation_id,
                             [role |-> role, user_id |-> user_id])} :
         /\ db' = r.db
         /\ lastCmd' = ChatRequest("add_message", key, conversation_id,
                                   user_id, role, r)
    /\ UNCHANGED <<dirs, files, ops, phase, stack, routers, corrupted>>
    /\ UNCHANGED now

NextChat ==
    \/ CreateConversation
    \/ AddParticipant
    \/ RemoveParticipant
    \/ AddMessage

SpecChat == InitChat /\ [][NextChat]_vars

\* C27 (SpecChat): an add_message request that passes the authentication,
\* names an existing conversation and a valid role, and carries a user_id
\* stores its message exactly when that user is a participant of the
\* conversation at that moment, and is answered 403 with the messages
\* untouched when the user is not
C27_OnlyParticipantsPost ==
    [][ (/\ lastCmd'.kind = "add_message"
         /\ verify_api_key(db, now, lastCmd'.key, ClientIp).status = 200
         /\ lastCmd'.conversation_id \in DOMAIN db.conversations
         /\ lastCmd'.role = "user"
         /\ lastCmd'.user_id # None)
        => IF lastCmd'.user_id \in db.conversations[lastCmd'.conversation_id]
           THEN /\ lastCmd'.status = 201
                /\ Len(db'.messages) = Len(db.messages) + 1
           ELSE /\ lastCmd'.status = 403
                /\ db'.messages = db.messages ]_vars

-----------------------------------------------------------------------------
(* Claims on regeneration and termination (Spec) *)

\* the step is `add feature' over a directory that was there, confirmed
Regenerated ==
    /\ lastCmd'.kind = "feature"
    /\ lastCmd'.existed
    /\ lastCmd'.confirm
    /\ lastCmd'.exit = 0
    /\ lastCmd'.target # <<>>

\* C30 (Spec): `add feature NAME' over an existing feature, confirmed, leaves
\* every file that was there with the content it had and every directory in
\* place, and the files it adds are files of the feature, of its tests/ and
\* docs/ mirrors or the __init__.py of its container, all of them missing
\* before
C30_NeverOverwrites ==
    [][ Regenerated
        => LET t == lastCmd'.target
               homes == {t, lastCmd'.container}
                        \cup (IF IsUnder(t, AppRoot)
                              THEN {MirrorOf("tests", t), MirrorOf("docs", t)}
                              ELSE {})
           IN  /\ \A f \in DOMAIN files :
                    f \in DOMAIN files' /\ files'[f] = files[f]
               /\ dirs \subseteq dirs'
               /\ \A f \in DOMAIN files' \ DOMAIN files :
                    /\ Parent(f) \in homes
                    /\ Parent(f) = lastCmd'.container => Name(f) = "__init__.py"
               /\ \A spec \in { FeatureFiles(<<Name(t)>>)[i] : i \in 1..6 } :
                    HasFile([dirs |-> dirs', files |-> files'], t, spec[1]) ]_vars

\* a feature whose stub had gathered hints was regenerated and still has
\* them, next to a router.py
C30_Witness ==
    /\ lastCmd.kind = "feature"
    /\ lastCmd.existed
    /\ lastCmd.confirm
    /\ lastCmd.exit = 0
    /\ lastCmd.target # <<>>
    /\ HasFile(FS, lastCmd.target, "router.py")
    /\ StubBlocks(FS, lastCmd.target) # {}

-----------------------------------------------------------------------------
(* `add' run from directories of the project that the operator made beside  *)
(* app/: /proj/lib/features and /proj/lib/shared, with or without a package *)
(* /proj/lib/features/y                                                     *)

\* number of `add' commands run there
MaxOutsideOps == 2

Lib == Proj \o <<"lib">>

OutsideCwds == { Lib \o <<"features">>, Lib \o <<"shared">>,
                 Proj \o <<"tests", "app", "features">>, AppRoot }

InitOutside ==
    /\ \E handmade \in BOOLEAN :
         LET made == Mkdirs(Mkdirs(InitFs, Lib \o <<"features">>),
                            Lib \o <<"shared">>)
             fs == IF handmade
                   THEN create_file(made,
                                    Lib \o <<"features", "y", "__init__.py">>,
                                    Content("empty", <<>>))
                   ELSE made
         IN  /\ dirs = fs.dirs
             /\ files = fs.files
    /\ lastCmd = NoCmd
    /\ ops = 0
    /\ phase = "cli"
    /\ stack = <<>>
    /\ routers = <<>>
    /\ corrupted = 0
    /\ db = NoDb
    /\ now = 0

GenerateFeature ==
    /\ ops < MaxOutsideOps
    /\ \E cwd \in OutsideCwds \cap dirs, parts \in NameInputs(FeatureNames) :
       \E r \in {add_feature(FS, cwd, parts, TRUE)} :
         /\ dirs' = r.fs.dirs
         /\ files' = r.fs.files
         /\ lastCmd' = Cmd("feature", cwd, parts, TRUE, r, Prompted(r), <<>>)
    /\ ops' = ops + 1
    /\ UNCHANGED <<phase, stack, routers, corrupted>>
    /\ UNCHANGED <<db, now>>

GenerateShared ==
    /\ ops < MaxOutsideOps
    /\ \E cwd \in OutsideCwds \cap dirs, parts \in NameInputs(SharedNames) :
       \E r \in {add_shared(FS, cwd, parts, TRUE)} :
         /\ dirs' = r.fs.dirs
         /\ files' = r.fs.files
         /\ lastCmd' = Cmd("shared", cwd, parts, TRUE, r, Prompted(r), <<>>)
    /\ ops' = ops + 1
    /\ UNCHANGED <<phase, stack, routers, corrupted>>
    /\ UNCHANGED <<db, now>>

NextOutside == GenerateFeature \/ GenerateShared

SpecOutside == InitOutside /\ [][NextOutside]_vars

\* C29 (SpecOutside): `add feature' and `add shared' return, with exit code
\* 0 or not, from every working directory of the project, the ones whose
\* features/ or shared/ container has no directory named app above it
\* included
C29_GenerationTerminates ==
    lastCmd.kind \in {"feature", "shared"} => ~lastCmd.hang

====
